---- MODULE Spec2Model ----
(***************************************************************************)
(* Job Runner traverser (package chain): Run, Stop, shutdown, runJobs and  *)
(* its per-job goroutines, stopRunningJobs, together with the Chain and    *)
(* the three reapers the traverser drives.                                 *)
(* Request Manager template grapher (package template): CreateTemplates,   *)
(* buildSequence and getTemplate over the request specs (package spec).    *)
(***************************************************************************)
EXTENDS Integers, FiniteSets, Sequences, TLC

\* ------------------------------------------------------------------------
\* Bounds of the model
\* ------------------------------------------------------------------------

\* Largest SequenceRetry a sequence start job of the modelled chains carries.
MaxSequenceRetry == 1
\* Goroutines of one job alive at a time: runJobs launches no further one
\* for the job while this many are.
MaxGoroutines == 2
\* Largest number of tries a runner reports for one Run (ret.Tries).
MaxRunnerTries == 1
\* Largest try counter of the suspended job chains a traverser is made from.
MaxSJCTries == 1
\* Largest try number of the job logs that are followed.
MaxLoggedTry == 2
\* Sequences of the modelled request specs.
MaxSequences == 3
\* Nodes of one sequence of the modelled request specs.
MaxNodes == 2
\* Times ProcessSpecs is applied to the parsed specs.
MaxProcessed == 2
\* Calls of buildSequence nested in one another that are followed.
MaxDepth == 4

\* ------------------------------------------------------------------------
\* Request specs (spec.Specs) and the state of the template grapher
\* ------------------------------------------------------------------------

\* Names of sequences, of the nodes of a sequence, and of job args.
SequenceNames == 1 .. MaxSequences
NodeNames == 1 .. MaxNodes
ArgNames == {"a", "b"}

\* A node type, or a value of Eq, that names no sequence: a job type.
JobType == 0

VARIABLES
    allSequences,       \* o.allSequences: sequence name -> *spec.Sequence
    sequenceTemplates,  \* o.sequenceTemplates: sequence name -> template
    sequenceErrors,     \* o.sequenceErrors: sequence name -> error
    ctPc,               \* position of CreateTemplates: "new" (not called,
                        \* o.sequenceTemplates nil), "range", "returned"
    ctRange,            \* sequence names its range loop has still to visit
    ctOk,               \* its local ok
    stack,              \* the calls of buildSequence, innermost last
    jobArgs,            \* getTemplate: job args available so far
    componentsToAdd,    \* getTemplate: nodes not in the graph yet
    componentsAdded,    \* getTemplate: nodes in the graph
    componentAdded,     \* getTemplate: this pass has inserted a node
    toVisit,            \* getTemplate: nodes the range loop over
                        \* componentsToAdd has still to visit in this pass
    builds,             \* sequence name -> number of times buildSequence
                        \* went past its check of the two maps
    parsed,             \* the specs as the parser read them
    specs,              \* the specs that ProcessSpecs changes in place
    processed           \* number of times ProcessSpecs was applied

getTemplateVars == <<jobArgs, componentsToAdd, componentsAdded,
                     componentAdded, toVisit>>

parserVars == <<parsed, specs, processed>>

grapherVars == <<allSequences, sequenceTemplates, sequenceErrors, ctPc,
                 ctRange, ctOk, stack, getTemplateVars, builds, parserVars>>

\* No specs are parsed.
NoParser ==
    /\ parsed = <<>>
    /\ specs = <<>>
    /\ processed = 0

\* No getTemplate is under way.
NoGetTemplate ==
    /\ jobArgs = {}
    /\ componentsToAdd = {}
    /\ componentsAdded = {}
    /\ componentAdded = FALSE
    /\ toVisit = {}

\* NewGrapher(specs, ...): o.sequenceTemplates nil, o.sequenceErrors empty.
NewGrapher ==
    /\ sequenceTemplates = <<>>
    /\ sequenceErrors = <<>>
    /\ ctPc = "new"
    /\ ctRange = {}
    /\ ctOk = TRUE
    /\ stack = <<>>
    /\ NoGetTemplate
    /\ builds = [s \in DOMAIN allSequences |-> 0]

\* A process that has no request specs: the Job Runner.
NoGrapher ==
    /\ allSequences = <<>>
    /\ NewGrapher
    /\ NoParser

\* ------------------------------------------------------------------------
\* The job chain (proto.JobChain) and the Chain wrapper
\* ------------------------------------------------------------------------

Jobs == {1, 2, 3}

\* Shapes of the modelled job chains: 1 -> 2 -> 3 and 1 -> {2, 3}.
Topologies == {"chain", "fork"}

States == {"PENDING", "RUNNING", "COMPLETE", "FAIL", "STOPPED"}

\* What a job does when it runs: it always completes, always fails, or
\* does either.
Outcomes == {"COMPLETE", "FAIL", "any"}

VARIABLES
    topology,           \* shape of jobChain.AdjacencyList
    sequenceRetry,      \* job.SequenceRetry of the sequence start job
    outcome,            \* job id -> what the job does when it runs
    sjc,                \* the suspended job chain: the one the chain was
                        \* made from or, once posted, the one posted
    resumed,            \* the traverser was made by MakeFromSJC
    jobLogs,            \* <<job id, try>> -> job logs sent to the Request
                        \* Manager under that key (2: two or more), for
                        \* the keys that are followed
    jobState,           \* chain: job id -> proto state
    sequenceTries,      \* chain: sequence start job id -> tries
    totalJobTries,      \* chain: job id -> tries over all sequence tries
    latestRunJobTries   \* chain: job id -> tries in the current sequence try

\* The job chain, or suspended job chain, of the request.
jobChainVars == <<topology, sequenceRetry, outcome, sjc, resumed>>

\* The request as the Request Manager has it.
requestVars == <<jobChainVars, jobLogs, grapherVars>>

\* The keys of all job logs the modelled chains can send.
JobLogKeys == Jobs \X (0 .. MaxLoggedTry)

\* t.rmc.CreateJL of a job log of job j with Try = try: the Request
\* Manager has one more job log under the key, if the key is followed.
CreateJL(j, try) ==
    jobLogs' = IF <<j, try>> \in DOMAIN jobLogs
               THEN [jobLogs EXCEPT ![<<j, try>>] = IF @ = 0 THEN 1 ELSE 2]
               ELSE jobLogs

chainVars == <<requestVars, jobState, sequenceTries, totalJobTries,
               latestRunJobTries>>

\* Jobs that job j depends on (the reverse of the adjacency list).
Deps(j) ==
    IF topology = "chain"
    THEN (IF j = 1 THEN {} ELSE {j - 1})
    ELSE (IF j = 1 THEN {} ELSE {1})

\* Jobs directly after job j.
NextJobs(j) == {k \in Jobs : j \in Deps(k)}

\* job.SequenceId: the jobs belong to the sequence that starts at job 1,
\* but for job 3 of the fork, which is a sequence of its own.
SequenceStartJob(j) == IF topology = "fork" /\ j = 3 THEN 3 ELSE 1

IsSequenceStartJob(j) == SequenceStartJob(j) = j

SequenceTries(j) == sequenceTries[SequenceStartJob(j)]

\* each: groups of the chain and their Parallel limit: in the fork the jobs
\* 2 and 3 are the unrolled copies of one each: node with parallel: 1.
EachGroups == IF topology = "fork" THEN {{2, 3}} ELSE {}

Parallel(g) == 1

\* Job j is runnable when the job states are js.
IsRunnableIn(js, j) ==
    /\ js[j] = "PENDING"
    /\ \A d \in Deps(j) : js[d] = "COMPLETE"

IsRunnable(j) == IsRunnableIn(jobState, j)

RunnableJobs == {j \in Jobs : IsRunnable(j)}

\* done: nothing is running and nothing can be run any more.
IsDoneRunningIn(js) ==
    /\ \A j \in Jobs : js[j] # "RUNNING"
    /\ \A j \in Jobs : ~IsRunnableIn(js, j)

IsDoneRunning == IsDoneRunningIn(jobState)

\* The reaper may start the sequence of job j over.
CanRetrySequence(j) == SequenceTries(j) <= sequenceRetry


\* ------------------------------------------------------------------------
\* The traverser
\* ------------------------------------------------------------------------

\* Goroutines launched by runJobs: <<j, k>> is the k-th goroutine slot of
\* job j. A job has several goroutines alive when it is run again while
\* an earlier goroutine is still on its way out.
Workers == Jobs \X (1 .. MaxGoroutines)

\* The job of a goroutine.
JobOf(w) == w[1]

\* The three reapers made by the reaper factory.
Reapers == {"running", "stopped", "suspended"}

Chans == {"stopChan", "doneChan", "pendingChan", "runJobChan",
          "runningReaperChan", "shutdownChan"}

VARIABLES
    reaper,         \* t.reaper: "nil" or the reaper installed
    reaperPc,       \* reaper -> "none", "recv", "enqueue", "done"
    reaperStopped,  \* reaper -> its Stop() has been called
    enqueue,        \* jobs the running reaper is sending on runJobChan
    rmPosted,       \* what the reapers have posted to the Request Manager
    closes,         \* channel -> number of times it has been closed
    stopMux,        \* holder of t.stopMux: "free", "Stop" or "shutdown"
    stopped,        \* t.stopped
    suspended,      \* t.suspended
    pending,        \* t.pending
    runnerRepo,     \* job id -> slot of the goroutine whose runner is
                    \* stored under the job's id, 0 for none
    inChainRepo,    \* the chain's request id is in the chain repo
    runPc,          \* position of Run()
    seedJobs,       \* initial runnable jobs Run() has still to send
    runJobsPc,      \* position of runJobs()
    wPc,            \* worker -> position of the goroutine: "idle" (not
                    \* alive), "start", "make", "dec", "run", "send"
    wState,         \* worker -> job.State of its copy of the job
    wStopSig,       \* worker -> runner.Stop() has been called
    spPc,           \* position of the Stop() or shutdown() that got past
                    \* the check of t.stopped and t.suspended
    spErr,          \* its stopRunningJobs: "nil", "timeout" (it gave up)
                    \* or "runners" (it stopped some runners)
    stopRet,        \* what that Stop() returned
    againRet,       \* what the latest Stop() that did nothing returned
    stopTimer,      \* time.After(t.stopTimeout) of the stop procedure
    panicked        \* the process died of a run-time panic

reaperVars == <<reaper, reaperPc, reaperStopped, enqueue, rmPosted>>
flagVars == <<closes, stopMux, stopped, suspended>>
runVars == <<inChainRepo, runPc, seedJobs>>
workerVars == <<wPc, wState, wStopSig>>
stopVars == <<spPc, spErr, stopRet, againRet, stopTimer>>

vars == <<chainVars, reaperVars, flagVars, pending, runnerRepo, runVars,
          runJobsPc, workerVars, stopVars, panicked>>

\* The chain state of a job chain on which no work has begun.
FreshChain ==
    [jobState |-> [j \in Jobs |-> "PENDING"],
     sequenceTries |-> [j \in Jobs |-> 0],
     totalJobTries |-> [j \in Jobs |-> 0],
     latestRunJobTries |-> [j \in Jobs |-> 0]]

\* c.ToSuspended(): the snapshot of the chain that goes into an SJC.
ToSuspended ==
    [jobState |-> jobState,
     sequenceTries |-> sequenceTries,
     totalJobTries |-> totalJobTries,
     latestRunJobTries |-> latestRunJobTries]

\* A chain as Make builds it from a new job chain.
NewChain ==
    /\ jobState = [j \in Jobs |-> "PENDING"]
    /\ sequenceTries = [j \in Jobs |-> 0]
    /\ totalJobTries = [j \in Jobs |-> 0]
    /\ latestRunJobTries = [j \in Jobs |-> 0]

\* NewTraverser: fresh channels, an empty runner repo, no reaper yet.
NewTraverser ==
    /\ reaper = "nil"
    /\ reaperPc = [r \in Reapers |-> "none"]
    /\ reaperStopped = [r \in Reapers |-> FALSE]
    /\ enqueue = {}
    /\ rmPosted = {}
    /\ closes = [c \in Chans |-> 0]
    /\ stopMux = "free"
    /\ stopped = FALSE
    /\ suspended = FALSE
    /\ pending = 0
    /\ runnerRepo = [j \in Jobs |-> 0]
    /\ seedJobs = {}
    /\ runJobsPc = "off"
    /\ wPc = [w \in Workers |-> "idle"]
    /\ wState = [w \in Workers |-> "PENDING"]
    /\ wStopSig = [w \in Workers |-> FALSE]
    /\ spPc = "idle"
    /\ spErr = "nil"
    /\ stopRet = "none"
    /\ againRet = "none"
    /\ stopTimer = "off"
    /\ panicked = FALSE

Init ==
    /\ NoGrapher
    /\ topology \in Topologies
    /\ sequenceRetry \in 0 .. MaxSequenceRetry
    /\ outcome = [j \in Jobs |-> "any"]
    /\ sjc = FreshChain
    /\ resumed = FALSE
    /\ jobLogs = <<>>
    /\ NewChain
    /\ NewTraverser
    /\ inChainRepo = TRUE
    /\ runPc = "new"



Closed(c) == closes[c] > 0

\* A run-time panic ends the process: no goroutine takes a step after it.
ProcessUp == ~panicked

\* close(c) for every channel c of cs: closing a closed channel panics.
Close(cs) ==
    /\ closes' = [c \in Chans |-> IF c \in cs THEN closes[c] + 1
                                               ELSE closes[c]]
    /\ panicked' = \E c \in cs : Closed(c)

\* ------------------------------------------------------------------------
\* runJobs
\* ------------------------------------------------------------------------

\* The lowest free goroutine slot of job j.
FreeWorker(j) == CHOOSE w \in Workers :
    /\ JobOf(w) = j
    /\ wPc[w] = "idle"
    /\ \A v \in Workers : JobOf(v) = j /\ wPc[v] = "idle" => w[2] <= v[2]

\* The goroutine of job j waits SequenceRetryWait first.
MustWaitSequenceRetry(j) == IsSequenceStartJob(j) /\ SequenceTries(j) # 0

\* c.IncrementSequenceTries(id, delta)
IncrementSequenceTries(j, delta) ==
    sequenceTries' = [sequenceTries EXCEPT
                         ![SequenceStartJob(j)] = @ + delta]

\* A goroutine that does not count the sequence try.
CountsNoSequenceTry(j) == UNCHANGED sequenceTries

\* t.chain.IncrementSequenceTries(job.Id, 1) in the goroutine of a sequence
\* start job.
CountsSequenceTry(j) == IncrementSequenceTries(j, 1)

\* The pending count once runJobs has decided to run a job.
PendingAfterLaunch == pending + 1

\* A runJobs without the check of stopChan.
runJobs_RunsAnyJob == FALSE

\* select { case <-t.stopChan: continue; default: } in the loop of runJobs.
runJobs_Drains == Closed("stopChan")

\* runJobs can take job j off runJobChan.
runJobs_CanReceive(j) ==
    /\ runJobsPc = "recv"
    /\ runJobs_Drains \/ \E w \in Workers : JobOf(w) = j /\ wPc[w] = "idle"

\* One iteration of the loop of runJobs, for the job j it receives. With
\* stopChan closed the job is dropped. Otherwise pending + 1 and the
\* goroutine is launched; it runs up to the sequence retry wait, or, when
\* it has none, up to t.rf.Make (a sequence start job counts its try).
runJobs_Receive(j) ==
    IF runJobs_Drains
    THEN UNCHANGED <<pending, workerVars, sequenceTries>>
    ELSE /\ pending' = PendingAfterLaunch
         /\ UNCHANGED <<wState, wStopSig>>
         /\ IF MustWaitSequenceRetry(j)
            THEN /\ wPc' = [wPc EXCEPT ![FreeWorker(j)] = "start"]
                 /\ UNCHANGED sequenceTries
            ELSE /\ wPc' = [wPc EXCEPT ![FreeWorker(j)] = "make"]
                 /\ IF IsSequenceStartJob(j)
                    THEN CountsSequenceTry(j)
                    ELSE UNCHANGED sequenceTries

\* runJobChan is closed: the loop ends and the deferred close(t.pendingChan)
\* runs.
runJobs_Return ==
    /\ ProcessUp
    /\ runJobsPc = "recv"
    /\ Closed("runJobChan")
    /\ runJobsPc' = "done"
    /\ Close({"pendingChan"})
    /\ UNCHANGED <<chainVars, reaperVars, stopMux, stopped, suspended,
                   pending, runnerRepo, runVars, workerVars, stopVars>>

\* ------------------------------------------------------------------------
\* Run
\* ------------------------------------------------------------------------

\* Run is called: go t.runJobs(), then t.chain.RunnableJobs().
Run_Call ==
    /\ ProcessUp
    /\ runPc = "new"
    /\ runPc' = "seed"
    /\ seedJobs' = RunnableJobs
    /\ runJobsPc' = "recv"
    /\ UNCHANGED <<chainVars, reaperVars, flagVars, pending, runnerRepo,
                   inChainRepo, workerVars, stopVars, panicked>>

\* t.runJobChan <- job, for an initial job: the channel is unbuffered, so
\* the send is one step with the receive in runJobs.
Run_Seed(j) ==
    /\ ProcessUp
    /\ runPc = "seed"
    /\ j \in seedJobs
    /\ runJobs_CanReceive(j)
    /\ seedJobs' = seedJobs \ {j}
    /\ runJobs_Receive(j)
    /\ UNCHANGED <<requestVars, jobState, totalJobTries,
                   latestRunJobTries, reaperVars, flagVars, runnerRepo,
                   inChainRepo, runPc, runJobsPc, stopVars, panicked>>

\* The running reaper returns, with or without finalizing the chain, and
\* the goroutine around it runs its deferred close(t.runJobChan) and
\* close(runningReaperChan).
RunningReaperReturns(finalize) ==
    /\ reaperPc' = [reaperPc EXCEPT !["running"] = "done"]
    /\ rmPosted' = IF finalize THEN rmPosted \cup {"final"} ELSE rmPosted
    /\ Close({"runJobChan", "runningReaperChan"})

\* t.reaper = t.reaperFactory.MakeRunning() and go func() { t.reaper.Run() }:
\* the running reaper finalizes at once when the chain is already done.
Run_MakeRunning ==
    /\ ProcessUp
    /\ runPc = "seed"
    /\ seedJobs = {}
    /\ reaper' = "running"
    /\ IF IsDoneRunning
       THEN RunningReaperReturns(TRUE)
       ELSE /\ reaperPc' = [reaperPc EXCEPT !["running"] = "recv"]
            /\ UNCHANGED <<rmPosted, closes, panicked>>
    /\ runPc' = "wait"
    /\ UNCHANGED <<chainVars, reaperStopped, enqueue, stopMux, stopped,
                   suspended, pending, runnerRepo, inChainRepo, seedJobs,
                   runJobsPc, workerVars, stopVars>>

\* A Run() that returns without its deferred call.
Run_ReturnsOnly == runPc' = "returned" /\ UNCHANGED inChainRepo

\* Run returns: the deferred t.chainRepo.Remove(t.chain.RequestId()) runs.
Run_Returns == runPc' = "returned" /\ inChainRepo' = FALSE

\* A Run() that reads t.stopped without taking stopMux.
Run_ReadsUnlocked == TRUE

\* t.stopMux.Lock() in Run: it waits for a Stop() or shutdown() under way.
Run_LocksStopMux == stopMux = "free"

\* case <-runningReaperChan: under stopMux, return unless t.stopped; the
\* deferred t.chainRepo.Remove runs on return.
Run_ReaperDone ==
    /\ ProcessUp
    /\ runPc = "wait"
    /\ Closed("runningReaperChan")
    /\ Run_LocksStopMux
    /\ IF stopped
       THEN runPc' = "waitDone" /\ UNCHANGED inChainRepo
       ELSE Run_Returns
    /\ UNCHANGED <<chainVars, reaperVars, flagVars, pending, runnerRepo,
                   seedJobs, runJobsPc, workerVars, stopVars, panicked>>

\* The second select of Run: case <-t.doneChan, or, with doneChan still
\* open, case <-time.After(20 * time.Second); Run returns in both.
Run_Done ==
    /\ ProcessUp
    /\ runPc = "waitDone"
    /\ Run_Returns
    /\ UNCHANGED <<chainVars, reaperVars, flagVars, pending, runnerRepo,
                   seedJobs, runJobsPc, workerVars, stopVars, panicked>>

\* The host process closes shutdownChan (SIGTERM). Only the select of Run
\* reads the channel, so a close before Run can choose its case is the
\* same as one at the moment it can.
ShutdownChan_Close ==
    /\ ProcessUp
    /\ runPc = "wait"
    /\ stopMux = "free"
    /\ ~Closed("shutdownChan")
    /\ Close({"shutdownChan"})
    /\ UNCHANGED <<chainVars, reaperVars, stopMux, stopped, suspended,
                   pending, runnerRepo, runVars, runJobsPc, workerVars,
                   stopVars>>


\* ------------------------------------------------------------------------
\* The goroutine runJobs launches for a job
\* ------------------------------------------------------------------------

\* c.IncrementJobTries(id, delta)
IncrementJobTries(j, delta) ==
    /\ totalJobTries' = [totalJobTries EXCEPT ![j] = @ + delta]
    /\ latestRunJobTries' = [latestRunJobTries EXCEPT ![j] = @ + delta]

\* case <-time.After(retryWait), then t.chain.IncrementSequenceTries(job.Id, 1)
W_SequenceRetryWaited(w) ==
    /\ ProcessUp
    /\ wPc[w] = "start"
    /\ CountsSequenceTry(JobOf(w))
    /\ wPc' = [wPc EXCEPT ![w] = "make"]
    /\ UNCHANGED <<requestVars, jobState, totalJobTries,
                   latestRunJobTries, reaperVars, flagVars, pending,
                   runnerRepo, runVars, runJobsPc, wState, wStopSig,
                   stopVars, panicked>>

\* A goroutine that returns from the wait without a word to pending.
PendingKept == pending

\* atomic.AddInt64(&t.pending, -1) of the goroutine stopped in its wait.
PendingAfterStoppedWait == pending - 1

\* case <-t.stopChan during the wait: pending - 1 and return.
W_SequenceRetryStopped(w) ==
    /\ ProcessUp
    /\ wPc[w] = "start"
    /\ Closed("stopChan")
    /\ pending' = PendingAfterStoppedWait
    /\ wPc' = [wPc EXCEPT ![w] = "idle"]
    /\ UNCHANGED <<chainVars, reaperVars, flagVars, runnerRepo, runVars,
                   runJobsPc, wState, wStopSig, stopVars, panicked>>

\* A goroutine that leaves job.State as it is when t.rf.Make fails.
StateKeptAfterMakeFailed == "PENDING"

\* job.State = proto.STATE_FAIL, when t.rf.Make fails.
StateAfterMakeFailed == "FAIL"

\* t.rf.Make fails: pending - 1, job.State = FAIL, sendJL with
\* Try = totalTries; the deferred send on doneJobChan is next.
W_MakeRunnerFails(w) ==
    /\ ProcessUp
    /\ wPc[w] = "make"
    /\ pending' = pending - 1
    /\ wState' = [wState EXCEPT ![w] = StateAfterMakeFailed]
    /\ CreateJL(JobOf(w), totalJobTries[JobOf(w)])
    /\ wPc' = [wPc EXCEPT ![w] = "send"]
    /\ UNCHANGED <<jobChainVars, grapherVars, jobState, sequenceTries,
                   totalJobTries,
                   latestRunJobTries, reaperVars, flagVars, runnerRepo,
                   runVars, runJobsPc, wStopSig, stopVars, panicked>>

\* t.rf.Make succeeds and t.runnerRepo.Set(job.Id, runner)
W_SetRunner(w) ==
    /\ ProcessUp
    /\ wPc[w] = "make"
    /\ runnerRepo' = [runnerRepo EXCEPT ![JobOf(w)] = w[2]]
    /\ wPc' = [wPc EXCEPT ![w] = "dec"]
    /\ UNCHANGED <<chainVars, reaperVars, flagVars, pending, runVars,
                   runJobsPc, wState, wStopSig, stopVars, panicked>>

\* atomic.AddInt64(&t.pending, -1), after the runner is in the repo, then
\* t.chain.SetJobState(job.Id, proto.STATE_RUNNING); runner.Run starts.
W_SetRunning(w) ==
    /\ ProcessUp
    /\ wPc[w] = "dec"
    /\ pending' = pending - 1
    /\ jobState' = [jobState EXCEPT ![JobOf(w)] = "RUNNING"]
    /\ wPc' = [wPc EXCEPT ![w] = "run"]
    /\ UNCHANGED <<requestVars, sequenceTries, totalJobTries,
                   latestRunJobTries, reaperVars, flagVars, runnerRepo,
                   runVars, runJobsPc, wState, wStopSig, stopVars,
                   panicked>>

\* Final states runner.Run can return: STOPPED only after runner.Stop().
RunnerFinalStates(w) ==
    (IF outcome[JobOf(w)] = "any" THEN {"COMPLETE", "FAIL"}
                                  ELSE {outcome[JobOf(w)]})
        \cup (IF wStopSig[w] THEN {"STOPPED"} ELSE {})

\* runner.Run returns: IncrementJobTries(job.Id, ret.Tries) and
\* job.State = ret.FinalState.
W_RunReturns(w) ==
    /\ ProcessUp
    /\ wPc[w] = "run"
    /\ \E st \in RunnerFinalStates(w), tries \in 1 .. MaxRunnerTries :
          /\ IncrementJobTries(JobOf(w), tries)
          /\ wState' = [wState EXCEPT ![w] = st]
    /\ wPc' = [wPc EXCEPT ![w] = "send"]
    /\ UNCHANGED <<requestVars, jobState, sequenceTries,
                   reaperVars, flagVars, pending, runnerRepo, runVars,
                   runJobsPc, wStopSig, stopVars, panicked>>

\* The deferred function of the goroutine is past its select and runs
\* t.runnerRepo.Remove(job.Id), its last statement: the goroutine is gone.
WorkerSent(w) ==
    /\ wPc' = [wPc EXCEPT ![w] = "idle"]
    /\ runnerRepo' = [runnerRepo EXCEPT ![JobOf(w)] = 0]
    /\ wState' = [wState EXCEPT ![w] = "PENDING"]
    /\ wStopSig' = [wStopSig EXCEPT ![w] = FALSE]

\* No reaper is reading doneJobChan and none is about to: the only case in
\* which a send can stay blocked for all of sendTimeout.
NoReaperReading ==
    /\ reaper # "nil"
    /\ \A r \in Reapers : reaperPc[r] \in {"none", "done"}
    /\ spPc # "waitReaper"

\* case <-time.After(t.sendTimeout) of the deferred send.
W_SendTimesOut(w) ==
    /\ ProcessUp
    /\ wPc[w] = "send"
    /\ NoReaperReading
    /\ WorkerSent(w)
    /\ UNCHANGED <<chainVars, reaperVars, flagVars, pending,
                   runVars, runJobsPc, stopVars, panicked>>

\* ------------------------------------------------------------------------
\* The reapers
\* ------------------------------------------------------------------------

\* A job that failed is not the sequence start and its sequence has a retry
\* left: the running reaper starts the sequence over.
RetriesSequence(j, st) ==
    st # "COMPLETE" /\ ~IsSequenceStartJob(j) /\ CanRetrySequence(j)

\* The job states after the running reaper has recorded state st of job j:
\* a sequence retry sets every job of the sequence back to PENDING.
ReapedJobState(j, st) ==
    IF RetriesSequence(j, st)
    THEN [k \in Jobs |->
              IF SequenceStartJob(k) = SequenceStartJob(j) THEN "PENDING"
                                                           ELSE jobState[k]]
    ELSE [jobState EXCEPT ![j] = st]

\* The jobs the running reaper sends on runJobChan after reaping job j: the
\* successors that have become runnable, or the sequence start job.
ReapedEnqueue(j, st) ==
    IF st = "COMPLETE"
    THEN {k \in NextJobs(j) : IsRunnableIn(ReapedJobState(j, st), k)}
    ELSE IF RetriesSequence(j, st) THEN {SequenceStartJob(j)} ELSE {}

\* The running reaper has finished with a job and has nothing (more) to
\* send: it finalizes and returns when the chain with job states js is
\* done, and reads doneJobChan again otherwise.
RunningReaperLoops(js) ==
    IF IsDoneRunningIn(js)
    THEN RunningReaperReturns(TRUE)
    ELSE /\ reaperPc' = [reaperPc EXCEPT !["running"] = "recv"]
         /\ UNCHANGED <<rmPosted, closes, panicked>>

\* job := <-doneJobChan in the running reaper, one step with the send of
\* the goroutine: update the job's state, emit the job log, then the retry
\* policy or the successors.
Running_Reap(w) ==
    /\ ProcessUp
    /\ reaperPc["running"] = "recv"
    /\ wPc[w] = "send"
    /\ jobState' = ReapedJobState(JobOf(w), wState[w])
    /\ latestRunJobTries' =
           IF RetriesSequence(JobOf(w), wState[w])
           THEN [k \in Jobs |->
                    IF SequenceStartJob(k) = SequenceStartJob(JobOf(w))
                    THEN 0 ELSE latestRunJobTries[k]]
           ELSE latestRunJobTries
    /\ enqueue' = ReapedEnqueue(JobOf(w), wState[w])
    /\ IF enqueue' = {}
       THEN RunningReaperLoops(jobState')
       ELSE /\ reaperPc' = [reaperPc EXCEPT !["running"] = "enqueue"]
            /\ UNCHANGED <<rmPosted, closes, panicked>>
    /\ CreateJL(JobOf(w), totalJobTries[JobOf(w)])
    /\ WorkerSent(w)
    /\ UNCHANGED <<jobChainVars, grapherVars, sequenceTries, totalJobTries,
                   reaper, reaperStopped, stopMux, stopped, suspended,
                   pending, runVars, runJobsPc, stopVars>>

\* runJobChan <- job in the running reaper, one step with the receive in
\* runJobs.
Running_Enqueue(j) ==
    /\ ProcessUp
    /\ reaperPc["running"] = "enqueue"
    /\ j \in enqueue
    /\ runJobs_CanReceive(j)
    /\ enqueue' = enqueue \ {j}
    /\ runJobs_Receive(j)
    /\ IF enqueue' = {}
       THEN RunningReaperLoops(jobState)
       ELSE UNCHANGED <<reaperPc, rmPosted, closes, panicked>>
    /\ UNCHANGED <<requestVars, jobState, totalJobTries,
                   latestRunJobTries, reaper, reaperStopped, stopMux,
                   stopped, suspended, runnerRepo, runVars, runJobsPc,
                   stopVars>>

\* case <-stopChan of the running reaper, after its Stop() was called: it
\* returns without finalizing.
Running_Stopped ==
    /\ ProcessUp
    /\ reaperPc["running"] = "recv"
    /\ reaperStopped["running"]
    /\ RunningReaperReturns(FALSE)
    /\ UNCHANGED <<chainVars, reaper, reaperStopped, enqueue, stopMux,
                   stopped, suspended, pending, runnerRepo, runVars,
                   runJobsPc, workerVars, stopVars>>

\* job := <-doneJobChan in the stopped or suspended reaper: it records the
\* job's state, emits the job log and enqueues nothing.
Second_Reap(r, w) ==
    /\ ProcessUp
    /\ r \in {"stopped", "suspended"}
    /\ reaperPc[r] = "recv"
    /\ wPc[w] = "send"
    /\ jobState' = [jobState EXCEPT ![JobOf(w)] = wState[w]]
    /\ CreateJL(JobOf(w), totalJobTries[JobOf(w)])
    /\ WorkerSent(w)
    /\ UNCHANGED <<jobChainVars, grapherVars, sequenceTries, totalJobTries,
                   latestRunJobTries, reaperVars, flagVars, pending,
                   runVars, runJobsPc, stopVars, panicked>>

\* The stopped or suspended reaper finds the runner repo empty: it posts
\* the final state, or the SJC of a chain that is not done, and returns.
Second_Finalize(r) ==
    /\ ProcessUp
    /\ r \in {"stopped", "suspended"}
    /\ reaperPc[r] = "recv"
    /\ \A j \in Jobs : runnerRepo[j] = 0
    /\ reaperPc' = [reaperPc EXCEPT ![r] = "done"]
    /\ rmPosted' = rmPosted \cup
           (IF r = "suspended" /\ ~IsDoneRunning THEN {"sjc"} ELSE {"final"})
    /\ sjc' = IF r = "suspended" /\ ~IsDoneRunning THEN ToSuspended ELSE sjc
    /\ UNCHANGED <<topology, sequenceRetry, outcome, resumed, jobLogs,
                   grapherVars,
                   jobState,
                   sequenceTries, totalJobTries, latestRunJobTries,
                   reaper, reaperStopped, enqueue, flagVars,
                   pending, runnerRepo, runVars, runJobsPc, workerVars,
                   stopVars, panicked>>

\* case <-stopChan of the stopped or suspended reaper, after its Stop() was
\* called: it returns.
Second_Stopped(r) ==
    /\ ProcessUp
    /\ r \in {"stopped", "suspended"}
    /\ reaperPc[r] = "recv"
    /\ reaperStopped[r]
    /\ reaperPc' = [reaperPc EXCEPT ![r] = "done"]
    /\ UNCHANGED <<chainVars, reaper, reaperStopped, enqueue, rmPosted,
                   flagVars, pending, runnerRepo, runVars, runJobsPc,
                   workerVars, stopVars, panicked>>


\* ------------------------------------------------------------------------
\* Stop, shutdown and stopRunningJobs
\* ------------------------------------------------------------------------

\* The reaper Stop() (stopped) or shutdown() (suspended) installs.
SecondReaper == IF stopped THEN "stopped" ELSE "suspended"

\* The check with the test of t.suspended left out.
AlreadyStoppedOnly == stopped

\* The check both Stop() and shutdown() make under stopMux: the traverser
\* has already been stopped or suspended.
AlreadyStoppedOrSuspended == stopped \/ suspended

\* A t.reaper.Stop() that does not wait for the reaper.
ReaperStopReturnsAtOnce == TRUE

\* t.reaper.Stop() has returned: it blocks until the reaper has.
ReaperStopReturned == reaperPc[reaper] = "done"

\* A Stop() that returns nil whenever it has nothing to do.
AlreadyReturnNil == "nil"

\* What Stop() returns when the traverser is already stopped or suspended.
AlreadyReturn == IF stopped THEN "nil" ELSE "ErrShuttingDown"

\* Stop() or shutdown() is past the check of t.stopped and t.suspended:
\* close(t.stopChan), then t.reaper.Stop(), which blocks until the running
\* reaper has returned. A nil t.reaper is a nil dereference.
SP_Begin ==
    /\ closes' = [closes EXCEPT !["stopChan"] = @ + 1]
    /\ IF reaper = "nil"
       THEN /\ panicked' = TRUE
            /\ UNCHANGED <<reaperStopped, spPc>>
       ELSE /\ panicked' = Closed("stopChan")
            /\ reaperStopped' = [reaperStopped EXCEPT ![reaper] = TRUE]
            /\ spPc' = "waitReaper"

\* A Stop() that leaves t.stopped as it is.
StoppedKept == stopped

\* t.stopped = true in Stop(), under stopMux.
StoppedAfterStop == TRUE

\* The API calls Stop() on a traverser that is neither stopped nor
\* suspended. A call made while stopMux is held does nothing until the
\* holder has returned, so it is taken to be made then.
Stop_Call ==
    /\ ProcessUp
    /\ stopMux = "free"
    /\ ~AlreadyStoppedOrSuspended
    /\ stopMux' = "Stop"
    /\ stopped' = StoppedAfterStop
    /\ SP_Begin
    /\ UNCHANGED <<chainVars, reaper, reaperPc, enqueue, rmPosted,
                   suspended, pending, runnerRepo, runVars, runJobsPc,
                   workerVars, spErr, stopRet, againRet, stopTimer>>

\* The API calls Stop() on a traverser that is already stopped or
\* suspended: nothing is done.
Stop_Again ==
    /\ ProcessUp
    /\ stopMux = "free"
    /\ AlreadyStoppedOrSuspended
    /\ againRet' = AlreadyReturn
    /\ UNCHANGED <<chainVars, reaperVars, flagVars, pending, runnerRepo,
                   runVars, runJobsPc, workerVars, spPc, spErr, stopRet,
                   stopTimer, panicked>>

\* case <-t.shutdownChan of Run: t.shutdown(), which does nothing while
\* stopMux is held, so Run is taken to choose this case once stopMux is
\* free. A shutdown() after Stop() returns at once.
Run_Shutdown ==
    /\ ProcessUp
    /\ runPc = "wait"
    /\ Closed("shutdownChan")
    /\ stopMux = "free"
    /\ IF AlreadyStoppedOrSuspended
       THEN /\ runPc' = "waitDone"
            /\ UNCHANGED <<closes, stopMux, suspended, reaperStopped, spPc,
                           panicked>>
       ELSE /\ runPc' = "shutdown"
            /\ stopMux' = "shutdown"
            /\ suspended' = TRUE
            /\ SP_Begin
    /\ UNCHANGED <<chainVars, reaper, reaperPc, enqueue, rmPosted, stopped,
                   pending, runnerRepo, inChainRepo, seedJobs, runJobsPc,
                   workerVars, spErr, stopRet, againRet, stopTimer>>

\* t.reaper.Stop() has returned; then t.reaper = MakeStopped() or
\* MakeSuspended(), go t.reaper.Run(), and
\* timeout := time.After(t.stopTimeout).
SP_SwapReaper ==
    /\ ProcessUp
    /\ spPc = "waitReaper"
    /\ ReaperStopReturned
    /\ reaper' = SecondReaper
    /\ reaperPc' = [reaperPc EXCEPT ![SecondReaper] = "recv"]
    /\ stopTimer' = "armed"
    /\ spPc' = "stopRunningJobs"
    /\ UNCHANGED <<chainVars, reaperStopped, enqueue, rmPosted, flagVars,
                   pending, runnerRepo, runVars, runJobsPc, workerVars,
                   spErr, stopRet, againRet, panicked>>

\* stopRunningJobs: case <-timeout while waiting for pendingChan or for the
\* pending count: it returns an error and has taken the one value of the
\* timer.
SRJ_Timeout ==
    /\ ProcessUp
    /\ spPc = "stopRunningJobs"
    /\ stopTimer = "armed"
    /\ stopTimer' = "taken"
    /\ spErr' = "timeout"
    /\ spPc' = "waitSecond"
    /\ UNCHANGED <<chainVars, reaperVars, flagVars, pending, runnerRepo,
                   runVars, runJobsPc, workerVars, stopRet, againRet,
                   panicked>>

\* stopRunningJobs: pendingChan is closed and the pending count is not
\* above zero, so runner.Stop() is called on every runner of
\* t.runnerRepo.Items().
SRJ_StopRunners ==
    /\ ProcessUp
    /\ spPc = "stopRunningJobs"
    /\ Closed("pendingChan")
    /\ ~(pending > 0)
    /\ wStopSig' = [w \in Workers |->
                       wStopSig[w] \/ runnerRepo[JobOf(w)] = w[2]]
    /\ spErr' = IF \E j \in Jobs : runnerRepo[j] # 0 THEN "runners"
                                                    ELSE "nil"
    /\ spPc' = "waitSecond"
    /\ UNCHANGED <<chainVars, reaperVars, flagVars, pending, runnerRepo,
                   runVars, runJobsPc, wPc, wState, stopRet, againRet,
                   stopTimer, panicked>>

\* What Stop() can return: the error of a stopRunningJobs that gave up, or
\* that of a runner.Stop() that failed (hadError).
StopReturns ==
    CASE spErr = "timeout" -> {"err"}
      [] spErr = "runners" -> {"nil", "err"}
      [] OTHER -> {"nil"}

\* The end of Stop and shutdown: close(t.doneChan), return err, and the
\* deferred t.stopMux.Unlock(); Run goes on after its t.shutdown().
SP_Return ==
    /\ Close({"doneChan"})
    /\ stopMux' = "free"
    /\ spPc' = "returned"
    /\ IF stopped
       THEN (\E ret \in StopReturns : stopRet' = ret) /\ UNCHANGED runPc
       ELSE runPc' = "waitDone" /\ UNCHANGED stopRet

\* case <-stoppedReaperChan (or suspendedReaperChan): the reaper returned.
SP_SecondReaperDone ==
    /\ ProcessUp
    /\ spPc = "waitSecond"
    /\ reaperPc[reaper] = "done"
    /\ SP_Return
    /\ UNCHANGED <<chainVars, reaperVars, stopped, suspended, pending,
                   runnerRepo, inChainRepo, seedJobs, runJobsPc, workerVars,
                   spErr, againRet, stopTimer>>

\* case <-timeout: t.reaper.Stop()
SP_Timeout ==
    /\ ProcessUp
    /\ spPc = "waitSecond"
    /\ stopTimer = "armed"
    /\ stopTimer' = "taken"
    /\ reaperStopped' = [reaperStopped EXCEPT ![reaper] = TRUE]
    /\ spPc' = "forceStop"
    /\ UNCHANGED <<chainVars, reaper, reaperPc, enqueue, rmPosted, flagVars,
                   pending, runnerRepo, runVars, runJobsPc, workerVars,
                   spErr, stopRet, againRet, panicked>>

\* t.reaper.Stop() returns once the stopped or suspended reaper has
\* returned.
SP_ForceStopped ==
    /\ ProcessUp
    /\ spPc = "forceStop"
    /\ ReaperStopReturned
    /\ SP_Return
    /\ UNCHANGED <<chainVars, reaperVars, stopped, suspended, pending,
                   runnerRepo, inChainRepo, seedJobs, runJobsPc, workerVars,
                   spErr, againRet, stopTimer>>

\* ------------------------------------------------------------------------
\* Running
\* ------------------------------------------------------------------------

\* Running(): one JobStatus for each runner of t.runnerRepo.Items(), with
\* State: t.chain.JobState(rs.Job.Id).
Running ==
    {[JobId |-> j, State |-> jobState[j]] :
        j \in {k \in Jobs : runnerRepo[k] # 0}}

\* ------------------------------------------------------------------------
\* Specification
\* ------------------------------------------------------------------------

RunStep ==
    \/ Run_Call
    \/ \E j \in Jobs : Run_Seed(j)
    \/ Run_MakeRunning
    \/ Run_ReaperDone
    \/ Run_Shutdown
    \/ Run_Done

WorkerStep(w) ==
    \/ W_SequenceRetryWaited(w)
    \/ W_SequenceRetryStopped(w)
    \/ W_MakeRunnerFails(w)
    \/ W_SetRunner(w)
    \/ W_SetRunning(w)
    \/ W_RunReturns(w)
    \/ W_SendTimesOut(w)

ReaperStep ==
    \/ \E w \in Workers : Running_Reap(w)
    \/ \E j \in Jobs : Running_Enqueue(j)
    \/ Running_Stopped
    \/ \E r \in Reapers, w \in Workers : Second_Reap(r, w)
    \/ \E r \in Reapers : Second_Finalize(r)
    \/ \E r \in Reapers : Second_Stopped(r)

StopStep ==
    \/ Stop_Call
    \/ Stop_Again
    \/ SP_SwapReaper
    \/ SRJ_Timeout
    \/ SRJ_StopRunners
    \/ SP_SecondReaperDone
    \/ SP_Timeout
    \/ SP_ForceStopped

Next ==
    \/ RunStep
    \/ runJobs_Return
    \/ \E w \in Workers : WorkerStep(w)
    \/ ReaperStep
    \/ StopStep
    \/ ShutdownChan_Close

Spec == Init /\ [][Next]_vars

\* The traverser of a new job chain, all of whose job logs are followed.
JobLogInit ==
    /\ NoGrapher
    /\ topology \in Topologies
    /\ sequenceRetry \in 0 .. MaxSequenceRetry
    /\ outcome = [j \in Jobs |-> "any"]
    /\ sjc = FreshChain
    /\ resumed = FALSE
    /\ jobLogs = [k \in JobLogKeys |-> 0]
    /\ NewChain
    /\ NewTraverser
    /\ inChainRepo = TRUE
    /\ runPc = "new"

JobLogSpec == JobLogInit /\ [][Next]_vars

\* Steps of a goroutine that do not depend on the job: everything but the
\* return of runner.Run, which a job may never do.
W_Progress(w) ==
    \/ W_SequenceRetryWaited(w)
    \/ W_SequenceRetryStopped(w)
    \/ W_MakeRunnerFails(w)
    \/ W_SetRunner(w)
    \/ W_SetRunning(w)
    \/ W_SendTimesOut(w)

\* Steps of Stop() and shutdown() once past the check of the flags.
SP_Step ==
    \/ SP_SwapReaper
    \/ SRJ_Timeout
    \/ SRJ_StopRunners
    \/ SP_SecondReaperDone
    \/ SP_Timeout
    \/ SP_ForceStopped

\* The Go scheduler runs every goroutine that can take a step, and a timer
\* that is waited for fires. Nothing makes the API call Stop(), the host
\* close shutdownChan, or a job return from runner.Run.
FairSpec ==
    /\ Spec
    /\ WF_vars(RunStep)
    /\ WF_vars(runJobs_Return)
    /\ \A w \in Workers : WF_vars(W_Progress(w))
    /\ WF_vars(ReaperStep)
    /\ WF_vars(SP_Step)

\* A run in which neither Stop() is called nor shutdownChan is closed.
NormalRunStep ==
    \/ Run_Call
    \/ \E j \in Jobs : Run_Seed(j)
    \/ Run_MakeRunning
    \/ Run_ReaperDone

NormalWorkerStep(w) ==
    \/ W_SequenceRetryWaited(w)
    \/ W_MakeRunnerFails(w)
    \/ W_SetRunner(w)
    \/ W_SetRunning(w)
    \/ W_RunReturns(w)
    \/ W_SendTimesOut(w)

NormalReaperStep ==
    \/ \E w \in Workers : Running_Reap(w)
    \/ \E j \in Jobs : Running_Enqueue(j)

NormalNext ==
    \/ NormalRunStep
    \/ runJobs_Return
    \/ \E w \in Workers : NormalWorkerStep(w)
    \/ NormalReaperStep

\* The normal run in which, besides, every runner.Run returns.
NormalSpec ==
    /\ Init
    /\ [][NormalNext]_vars
    /\ WF_vars(NormalRunStep)
    /\ WF_vars(runJobs_Return)
    /\ \A w \in Workers : WF_vars(NormalWorkerStep(w))
    /\ WF_vars(NormalReaperStep)


\* ------------------------------------------------------------------------
\* MakeFromSJC
\* ------------------------------------------------------------------------

\* c.SetJobState(id, state) on the chain c.
ChainSetJobState(c, j, st) == [c EXCEPT !.jobState[j] = st]

\* c.IncrementJobTries(id, delta) on the chain c.
ChainIncrementJobTries(c, j, delta) ==
    [c EXCEPT !.totalJobTries[j] = @ + delta,
              !.latestRunJobTries[j] = @ + delta]

\* c.IncrementSequenceTries(id, delta) on the chain c.
ChainIncrementSequenceTries(c, j, delta) ==
    [c EXCEPT !.sequenceTries[SequenceStartJob(j)] = @ + delta]

\* A loop that rewrites every job.
RewritesEveryJob(c, j) == TRUE

\* The loop of MakeFromSJC goes on to the next job unless this one is
\* STOPPED.
RewritesJob(c, j) == c.jobState[j] = "STOPPED"

\* A loop that leaves the sequence tries alone.
NeverRewindsSequence(j) == FALSE

\* if chain.IsSequenceStartJob(job.Id)
RewindsSequence(j) == IsSequenceStartJob(j)

\* The body of the loop of MakeFromSJC for job j, on the chain c.
ResumeJob(c, j) ==
    IF ~RewritesJob(c, j)
    THEN c
    ELSE IF RewindsSequence(j)
         THEN ChainIncrementSequenceTries(
                  ChainSetJobState(ChainIncrementJobTries(c, j, -1),
                                   j, "PENDING"),
                  j, -1)
         ELSE ChainSetJobState(ChainIncrementJobTries(c, j, -1),
                               j, "PENDING")

RECURSIVE ResumeJobs(_, _)
\* for _, job := range sjc.JobChain.Jobs, over the jobs js still to visit.
ResumeJobs(c, js) ==
    IF js = {}
    THEN c
    ELSE LET j == CHOOSE k \in js : TRUE
         IN  ResumeJobs(ResumeJob(c, j), js \ {j})

\* The chain MakeFromSJC hands to make, for the suspended job chain s.
MakeFromSJC(s) == ResumeJobs(s, Jobs)

\* The suspended job chains a traverser is made from: what a Job Runner
\* can have left. Only sequence start jobs count sequence tries; a job that
\* ran has tries, and its sequence has; a job that is not PENDING had its
\* dependencies COMPLETE; no job is RUNNING.
IsSuspendedChain(s) ==
    \A j \in Jobs :
        /\ s.jobState[j] # "RUNNING"
        /\ ~IsSequenceStartJob(j) => s.sequenceTries[j] = 0
        /\ s.latestRunJobTries[j] <= s.totalJobTries[j]
        /\ s.jobState[j] \in {"STOPPED", "COMPLETE"}
               => /\ s.latestRunJobTries[j] >= 1
                  /\ s.sequenceTries[SequenceStartJob(j)] >= 1
        /\ s.jobState[j] # "PENDING"
               => \A d \in Deps(j) : s.jobState[d] = "COMPLETE"

SuspendedChains ==
    {s \in [jobState : [Jobs -> States],
            sequenceTries : [Jobs -> 0 .. MaxSJCTries],
            totalJobTries : [Jobs -> 0 .. MaxSJCTries],
            latestRunJobTries : [Jobs -> 0 .. MaxSJCTries]] :
        IsSuspendedChain(s)}

\* A job chain (Make) or a suspended job chain (MakeFromSJC) has come to
\* the factory, and the chain repo holds its request id or not. The chain
\* is NewChain of what has come.
FactoryInit ==
    /\ NoGrapher
    /\ topology \in Topologies
    /\ sequenceRetry \in 0 .. MaxSequenceRetry
    /\ outcome = [j \in Jobs |-> "any"]
    /\ runPc \in {"jc", "sjc"}
    /\ sjc \in IF runPc = "jc" THEN {FreshChain} ELSE SuspendedChains
    /\ resumed = FALSE
    /\ jobLogs = <<>>
    /\ jobState = sjc.jobState
    /\ sequenceTries = sjc.sequenceTries
    /\ totalJobTries = sjc.totalJobTries
    /\ latestRunJobTries = sjc.latestRunJobTries
    /\ NewTraverser
    /\ inChainRepo \in BOOLEAN

\* A make that goes on when f.chainRepo.Add has failed.
make_IgnoresAddError == FALSE

\* if err := f.chainRepo.Add(chain); err != nil: Add fails when the chain's
\* request id is in the repo.
make_AddFails == inChainRepo

\* The factory's make: the chain is added to the chain repo and the
\* traverser made, or it returns nil and the error of Add.
make ==
    IF make_AddFails
    THEN runPc' = "rejected" /\ UNCHANGED inChainRepo
    ELSE runPc' = "new" /\ inChainRepo' = TRUE

\* The factory's Make(jobChain): NewChain with empty maps, and make.
Factory_Make ==
    /\ ProcessUp
    /\ runPc = "jc"
    /\ make
    /\ UNCHANGED <<requestVars, jobState, sequenceTries, totalJobTries,
                   latestRunJobTries, reaperVars, flagVars, pending,
                   runnerRepo, seedJobs, runJobsPc, workerVars, stopVars,
                   panicked>>

\* The factory's MakeFromSJC(sjc): NewChain on the SJC's job chain and
\* counters, the loop over its jobs, and make.
Factory_MakeFromSJC ==
    /\ ProcessUp
    /\ runPc = "sjc"
    /\ jobState' = MakeFromSJC(sjc).jobState
    /\ sequenceTries' = MakeFromSJC(sjc).sequenceTries
    /\ totalJobTries' = MakeFromSJC(sjc).totalJobTries
    /\ latestRunJobTries' = MakeFromSJC(sjc).latestRunJobTries
    /\ resumed' = TRUE
    /\ make
    /\ UNCHANGED <<topology, sequenceRetry, outcome, sjc, jobLogs,
                   grapherVars,
                   reaperVars,
                   flagVars, pending, runnerRepo, seedJobs, runJobsPc,
                   workerVars, stopVars, panicked>>

FactoryNext ==
    \/ Factory_Make
    \/ Factory_MakeFromSJC
    \/ NormalRunStep
    \/ runJobs_Return
    \/ \E w \in Workers : NormalWorkerStep(w)
    \/ NormalReaperStep

\* The factory makes a traverser, or none, and the traverser runs with
\* neither Stop nor shutdown.
FactorySpec ==
    /\ FactoryInit
    /\ [][FactoryNext]_vars
    /\ WF_vars(Factory_Make)
    /\ WF_vars(Factory_MakeFromSJC)
    /\ WF_vars(NormalRunStep)
    /\ WF_vars(runJobs_Return)
    /\ \A w \in Workers : WF_vars(NormalWorkerStep(w))
    /\ WF_vars(NormalReaperStep)

\* ------------------------------------------------------------------------
\* Resume
\* ------------------------------------------------------------------------

\* Idempotent jobs: a job ends the same way every time it is run.
IdempotentOutcomes == [Jobs -> {"COMPLETE", "FAIL"}]

\* The traverser of a new job chain whose jobs are idempotent.
ResumeInit ==
    /\ NoGrapher
    /\ topology \in Topologies
    /\ sequenceRetry \in 0 .. MaxSequenceRetry
    /\ outcome \in IdempotentOutcomes
    /\ sjc = FreshChain
    /\ resumed = FALSE
    /\ jobLogs = <<>>
    /\ NewChain
    /\ NewTraverser
    /\ inChainRepo = TRUE
    /\ runPc = "new"

\* The Request Manager hands the SJC it was sent to a Job Runner, once the
\* suspended traverser's Run has returned: the chain the factory is given
\* is the SJC's, and the traverser it makes is a new one.
RM_Resume ==
    /\ ProcessUp
    /\ "sjc" \in rmPosted
    /\ ~resumed
    /\ runPc = "returned"
    /\ runPc' = "sjc"
    /\ jobState' = sjc.jobState
    /\ sequenceTries' = sjc.sequenceTries
    /\ totalJobTries' = sjc.totalJobTries
    /\ latestRunJobTries' = sjc.latestRunJobTries
    /\ reaper' = "nil"
    /\ reaperPc' = [r \in Reapers |-> "none"]
    /\ reaperStopped' = [r \in Reapers |-> FALSE]
    /\ enqueue' = {}
    /\ rmPosted' = {}
    /\ closes' = [c \in Chans |-> 0]
    /\ stopMux' = "free"
    /\ stopped' = FALSE
    /\ suspended' = FALSE
    /\ pending' = 0
    /\ runnerRepo' = [j \in Jobs |-> 0]
    /\ seedJobs' = {}
    /\ runJobsPc' = "off"
    /\ wPc' = [w \in Workers |-> "idle"]
    /\ wState' = [w \in Workers |-> "PENDING"]
    /\ wStopSig' = [w \in Workers |-> FALSE]
    /\ spPc' = "idle"
    /\ spErr' = "nil"
    /\ stopRet' = "none"
    /\ againRet' = "none"
    /\ stopTimer' = "off"
    /\ panicked' = FALSE
    /\ UNCHANGED <<requestVars, inChainRepo>>

\* The host process is shut down once: the resumed traverser runs on.
Host_Shutdown ==
    /\ ~resumed
    /\ ShutdownChan_Close

\* Steps of a goroutine whose runner can be made.
ResumeWorkerStep(w) ==
    \/ W_SequenceRetryWaited(w)
    \/ W_SequenceRetryStopped(w)
    \/ W_SetRunner(w)
    \/ W_SetRunning(w)
    \/ W_RunReturns(w)
    \/ W_SendTimesOut(w)

ResumeNext ==
    \/ RunStep
    \/ runJobs_Return
    \/ \E w \in Workers : ResumeWorkerStep(w)
    \/ ReaperStep
    \/ SP_Step
    \/ Host_Shutdown
    \/ RM_Resume
    \/ Factory_MakeFromSJC

\* A chain of idempotent jobs is run, may be suspended once by a shutdown
\* and is then resumed; every goroutine that can take a step does, every
\* job returns, and nothing makes the host shut down or the Request
\* Manager resume.
ResumeSpec ==
    /\ ResumeInit
    /\ [][ResumeNext]_vars
    /\ WF_vars(RunStep)
    /\ WF_vars(runJobs_Return)
    /\ \A w \in Workers : WF_vars(ResumeWorkerStep(w))
    /\ WF_vars(ReaperStep)
    /\ WF_vars(SP_Step)
    /\ WF_vars(Factory_MakeFromSJC)

\* The job states in which a run ends that starts from js and in which
\* every job that can be run is run to its outcome.
RECURSIVE RunToEnd(_)
RunToEnd(js) ==
    IF \E j \in Jobs : IsRunnableIn(js, j)
    THEN LET j == CHOOSE k \in Jobs : IsRunnableIn(js, k)
         IN  RunToEnd([js EXCEPT ![j] = outcome[j]])
    ELSE js

\* The final job states of the original chain run uninterrupted.
UninterruptedFinal == RunToEnd(FreshChain.jobState)

\* ------------------------------------------------------------------------
\* The template grapher: helpers of buildSequence and getTemplate
\* ------------------------------------------------------------------------

\* Everything but the grapher: a process with request specs, the Request
\* Manager, runs no traverser.
jobRunnerVars == <<jobChainVars, jobLogs, jobState, sequenceTries,
                   totalJobTries, latestRunJobTries, reaperVars, flagVars,
                   pending, runnerRepo, runVars, runJobsPc, workerVars,
                   stopVars, panicked>>

\* And the parser, which is over when the grapher is made.
traverserVars == <<jobRunnerVars, parserVars>>

NoJobRunner ==
    /\ topology = "chain"
    /\ sequenceRetry = 0
    /\ outcome = [j \in Jobs |-> "any"]
    /\ sjc = FreshChain
    /\ resumed = FALSE
    /\ jobLogs = <<>>
    /\ NewChain
    /\ NewTraverser
    /\ inChainRepo = FALSE
    /\ runPc = "new"

\* node.IsSequence() and node.IsConditional().
IsSequence(node) == node.Category = "sequence"
IsConditional(node) == node.Category = "conditional"

\* An error: its message and the <<node, arg>> pairs the message names
\* (arg "" where it names nodes only).
Error(msg, about) == [msg |-> msg, about |-> about]

\* A nil error.
Nil == Error("nil", {})

\* getSubsequences(seq): node name -> subsequences, for the nodes that have
\* any. The values of Eq that are no sequences are left out.
getSubsequences(seq) ==
    LET subseq(n) ==
            IF IsSequence(seq.Nodes[n]) THEN {seq.Nodes[n].NodeType}
            ELSE IF IsConditional(seq.Nodes[n])
                 THEN seq.Nodes[n].Eq \cap DOMAIN allSequences
                 ELSE {}
    IN  [n \in {m \in DOMAIN seq.Nodes : subseq(m) # {}} |-> subseq(n)]

\* Actual sets that hold the args that any template of the subsequences of
\* a node outputs.
getActualSetsOfAny(subsequences) ==
    [n \in DOMAIN subsequences |->
        UNION {sequenceTemplates[q].sets :
                  q \in subsequences[n] \cap DOMAIN sequenceTemplates}]

\* getActualSets(subsequences): node name -> the args that as many
\* templates of its subsequences output as it has subsequences.
getActualSets(subsequences) ==
    LET actualMap(n, arg) ==
            Cardinality({q \in subsequences[n] :
                            /\ q \in DOMAIN sequenceTemplates
                            /\ arg \in sequenceTemplates[q].sets})
    IN  [n \in DOMAIN subsequences |->
            {arg \in ArgNames :
                /\ actualMap(n, arg) > 0
                /\ actualMap(n, arg) = Cardinality(subsequences[n])}]

\* Missing sets that are never any.
getNoMissingSets(nodes, actualSets) == <<>>

\* getMissingSets(nodes, actualSets): node name -> the args of its Sets
\* that are not in its actual sets, for the nodes that have any.
getMissingSets(nodes, actualSets) ==
    LET missing(n) ==
            {nodeSet.Arg : nodeSet \in
                {ns \in nodes[n].Sets : ns.Arg \notin actualSets[n]}}
    IN  [n \in {m \in DOMAIN actualSets : missing(m) # {}} |-> missing(n)]

\* A sequence that starts without job args.
getNoSequenceArgs(seq) == {}

\* getAllSequenceArgs(seq).
getAllSequenceArgs(seq) ==
    seq.Args.Required \cup seq.Args.Optional \cup seq.Args.Static

\* dependenciesSatisfied(inGraph, dependencies, nodes): nodes[dep] is nil
\* for a name that is no node, and nil is never in the graph.
dependenciesSatisfied(inGraph, dependencies, nodes) ==
    \A dep \in dependencies : dep \in DOMAIN nodes /\ dep \in inGraph

\* len(strings.Split(each, ":")) != 2 for an entry of Each that is not "":
\* an entry is modelled by its parts between the colons.
MalformedEach(n) == \E each \in n.Each : each # <<"">> /\ Len(each) # 2

\* A getMissingArgs that finds every arg.
getNoMissingArgs(n, args) == {}

\* The list getMissingArgs(n, jobArgs) returns with a nil error.
getMissingArgs(n, args) ==
    {each[1] : each \in {e \in n.Each : e # <<"">> /\ e[1] \notin args}}
        \cup (IF n.If # "nil" /\ n.If \notin args THEN {n.If} ELSE {})
        \cup {arg.Given : arg \in {a \in n.Args : a.Given \notin args}}

\* ------------------------------------------------------------------------
\* The modelled request specs
\* ------------------------------------------------------------------------

\* Each of a node: nothing, "a:x", or the malformed "a". Args of a node:
\* nothing, or one arg given as a or as b. Sets of a job node.
EachLists == {{}, {<<"a", "x">>}, {<<"a">>}}
ArgLists == {{}, {[Expected |-> "x", Given |-> "a"]},
                 {[Expected |-> "x", Given |-> "b"]}}
SetsLists == {{}, {[Arg |-> "a", As |-> "a"]}, {[Arg |-> "a", As |-> "b"]}}

\* Args of a sequence.
NoArgs == [Required |-> {}, Optional |-> {}, Static |-> {}]
SequenceArgs ==
    {NoArgs,
     [Required |-> {"a"}, Optional |-> {}, Static |-> {}],
     [Required |-> {}, Optional |-> {"a"}, Static |-> {"b"}]}

\* Nodes whose dependencies, inputs and Sets are any: job nodes that take
\* at most one input, and conditional nodes whose branches are job types.
TemplateNodes ==
    {n \in [Category : {"job"}, NodeType : {JobType}, Eq : {{}},
            Each : EachLists, If : {"nil"}, Args : ArgLists,
            Sets : SetsLists, Dependencies : SUBSET NodeNames] :
        n.Each = {} \/ n.Args = {}}
    \cup
    {[Category |-> "conditional", NodeType |-> JobType, Eq |-> {JobType},
      Each |-> {}, If |-> "a", Args |-> {}, Sets |-> st,
      Dependencies |-> d] : st \in SetsLists, d \in SUBSET NodeNames}

\* Specs of one sequence that refers to no other.
TemplateSpecs ==
    {[q \in {1} |-> [Args |-> a, Nodes |-> ns]] :
        a \in SequenceArgs,
        ns \in UNION {[1 .. k -> TemplateNodes] : k \in 1 .. MaxNodes}}

\* A job node without dependencies.
JobNode(args, sets) ==
    [Category |-> "job", NodeType |-> JobType, Eq |-> {}, Each |-> {},
     If |-> "nil", Args |-> args, Sets |-> sets, Dependencies |-> {}]

\* A sequence node of subsequence q, without dependencies.
SequenceNode(q, sets) ==
    [Category |-> "sequence", NodeType |-> q, Eq |-> {}, Each |-> {},
     If |-> "nil", Args |-> {}, Sets |-> sets, Dependencies |-> {}]

\* A conditional node on the arg a, without dependencies.
ConditionalNode(eq, sets) ==
    [Category |-> "conditional", NodeType |-> JobType, Eq |-> eq,
     Each |-> {}, If |-> "a", Args |-> {}, Sets |-> sets,
     Dependencies |-> {}]

\* Sets of the nodes of the sequences that refer to others.
OuterSets == {{}, {[Arg |-> "a", As |-> "a"]}, {[Arg |-> "b", As |-> "b"]}}

\* A sequence of one job node: it sets nothing, a, or b, or it is given an
\* arg that it does not have.
LeafNodes ==
    {JobNode({}, st) : st \in OuterSets}
        \cup {JobNode({[Expected |-> "x", Given |-> "a"]}, {})}

\* Specs of three sequences: sequence 3 has one job node; sequence 2 has
\* one node, a job or the sequence 3; sequence 1, with the arg a, has
\* nodes that are jobs, sequences 2 or 3, or conditionals over them. And
\* the same specs without sequence 3, which has no definition then.
ReferenceSpecs ==
    LET Mid == LeafNodes \cup {SequenceNode(3, st) : st \in OuterSets}
        Outer == {JobNode({}, {})}
                   \cup {SequenceNode(q, st) : q \in {2, 3}, st \in OuterSets}
                   \cup {ConditionalNode(eq, st) :
                            eq \in {{2, 3}, {2, JobType}, {JobType}},
                            st \in OuterSets}
    IN  {[q \in 1 .. last |->
            IF q = 1
            THEN [Args |-> [Required |-> {"a"}, Optional |-> {},
                            Static |-> {}],
                  Nodes |-> top]
            ELSE [Args |-> NoArgs,
                  Nodes |-> [n \in {1} |-> IF q = 2 THEN mid ELSE leaf]]] :
            top \in UNION {[1 .. k -> Outer] : k \in 1 .. MaxNodes},
            mid \in Mid, leaf \in LeafNodes, last \in {2, 3}}

\* ------------------------------------------------------------------------
\* The template grapher: CreateTemplates, buildSequence, getTemplate
\* ------------------------------------------------------------------------

\* The innermost call of buildSequence.
Top == stack[Len(stack)]

\* The stack with the innermost call changed to frame.
WithTop(frame) == [stack EXCEPT ![Len(stack)] = frame]

\* A caller that drops the result of a call of buildSequence.
ReturnedUnchecked(callers, build) ==
    /\ stack' = callers
    /\ ctOk' = ctOk

\* The caller, whose calls are `callers`, gets the result of a call of
\* buildSequence: ok = ok && build, in buildAllSubsequences or, for the
\* outermost call, in CreateTemplates.
Returned(callers, build) ==
    /\ stack' = IF callers = <<>> THEN <<>>
                ELSE [callers EXCEPT ![Len(callers)].ok = @ /\ build]
    /\ ctOk' = IF callers = <<>> THEN ctOk /\ build ELSE ctOk

\* A deferred function that records a template whatever retErr is.
RecordsAnyTemplate(retErr) == TRUE

\* if template != nil: template is set right before return true only, when
\* retErr is nil.
RecordsTemplate(retErr) == retErr = Nil

\* The deferred function of buildSequence and its return: retErr goes into
\* sequenceErrors, the template (its sets) into sequenceTemplates.
buildSequence_Return(name, callers, retErr, sets) ==
    /\ sequenceErrors' =
          IF retErr # Nil
          THEN [q \in DOMAIN sequenceErrors \cup {name} |->
                   IF q = name THEN retErr ELSE sequenceErrors[q]]
          ELSE sequenceErrors
    /\ sequenceTemplates' =
          IF RecordsTemplate(retErr)
          THEN [q \in DOMAIN sequenceTemplates \cup {name} |->
                   IF q = name THEN [sets |-> sets]
                               ELSE sequenceTemplates[q]]
          ELSE sequenceTemplates
    /\ Returned(callers, retErr = Nil)

\* A buildSequence that returns at its check of the two maps.
buildSequence_Rebuilds(name) == FALSE

\* _, ok := o.sequenceTemplates[sequenceName] and
\* _, ok = o.sequenceErrors[sequenceName]: the sequence has been built, or
\* its build has failed.
buildSequence_Built(name) ==
    name \in DOMAIN sequenceTemplates \cup DOMAIN sequenceErrors

\* buildSequence(name), called by the caller whose calls are `callers`, up
\* to the loop of buildAllSubsequences: the check of the two maps, the
\* look-up of the sequence and getSubsequences.
buildSequence_Call(name, callers) ==
    IF buildSequence_Built(name)
    THEN /\ Returned(callers, name \in DOMAIN sequenceTemplates)
         /\ UNCHANGED <<sequenceTemplates, sequenceErrors, builds>>
    ELSE /\ builds' = [q \in DOMAIN builds \cup {name} |->
                          IF q = name
                          THEN (IF q \in DOMAIN builds THEN builds[q] ELSE 0)
                                   + 1
                          ELSE builds[q]]
         /\ IF name \notin DOMAIN allSequences
            THEN buildSequence_Return(name, callers,
                     Error("cannot find definition", {}), {})
            ELSE /\ Len(callers) < MaxDepth
                 /\ stack' = Append(callers,
                      [name |-> name,
                       pc |-> "buildAllSubsequences",
                       subsequences |-> getSubsequences(allSequences[name]),
                       todo |-> LET subs ==
                                        getSubsequences(allSequences[name])
                                IN  {nq \in NodeNames \X SequenceNames :
                                        /\ nq[1] \in DOMAIN subs
                                        /\ nq[2] \in subs[nq[1]]},
                       ok |-> TRUE])
                 /\ UNCHANGED <<sequenceTemplates, sequenceErrors, ctOk>>

\* CreateTemplates is called for the first time.
CreateTemplates_Call ==
    /\ ctPc = "new"
    /\ ctPc' = "range"
    /\ ctRange' = DOMAIN allSequences
    /\ ctOk' = TRUE
    /\ UNCHANGED <<allSequences, sequenceTemplates, sequenceErrors, stack,
                   getTemplateVars, builds, traverserVars>>

\* A range that yields the same sequence names over and over.
RangeStartsOver(name) == ctRange

\* for sequenceName, _ := range o.allSequences: the names the range has
\* still to yield after name.
RangeAfter(name) == ctRange \ {name}

\* build := o.buildSequence(sequenceName) for the next sequence name of
\* the range over o.allSequences, whose order is any.
CreateTemplates_Build(name) ==
    /\ ctPc = "range"
    /\ stack = <<>>
    /\ name \in ctRange
    /\ ctRange' = RangeAfter(name)
    /\ buildSequence_Call(name, <<>>)
    /\ UNCHANGED <<allSequences, ctPc, getTemplateVars, traverserVars>>

\* return o.sequenceTemplates, ok
CreateTemplates_Return ==
    /\ ctPc = "range"
    /\ stack = <<>>
    /\ ctRange = {}
    /\ ctPc' = "returned"
    /\ UNCHANGED <<allSequences, sequenceTemplates, sequenceErrors, ctRange,
                   ctOk, stack, getTemplateVars, builds, traverserVars>>

\* build := o.buildSequence(seq) in buildAllSubsequences, for the next
\* subsequence of the next node: the subsequences are the values of a map.
buildAllSubsequences_Build(n, name) ==
    /\ stack # <<>>
    /\ Top.pc = "buildAllSubsequences"
    /\ <<n, name>> \in Top.todo
    /\ buildSequence_Call(name,
           WithTop([Top EXCEPT !.todo = @ \ {<<n, name>>}]))
    /\ UNCHANGED <<allSequences, ctPc, ctRange, getTemplateVars,
                   traverserVars>>

\* The calls of buildSequence but the innermost.
Callers == SubSeq(stack, 1, Len(stack) - 1)

\* getTemplate returns: its locals are gone.
getTemplate_Reset ==
    /\ jobArgs' = {}
    /\ componentsToAdd' = {}
    /\ componentsAdded' = {}
    /\ componentAdded' = FALSE
    /\ toVisit' = {}

\* return nil, err in getTemplate, and retErr = err in buildSequence.
getTemplate_Fail(err) ==
    /\ buildSequence_Return(Top.name, Callers, err, {})
    /\ getTemplate_Reset

\* template.sets = jobArgs; return template, nil, and template = temp in
\* buildSequence.
getTemplate_Succeed(args) ==
    /\ buildSequence_Return(Top.name, Callers, Nil, args)
    /\ getTemplate_Reset

\* for len(componentsToAdd) > 0: one more pass over componentsToAdd, or
\* the graph is complete.
getTemplate_Loop(args, toAdd, added) ==
    IF toAdd = {}
    THEN getTemplate_Succeed(args)
    ELSE /\ jobArgs' = args
         /\ componentsToAdd' = toAdd
         /\ componentsAdded' = added
         /\ componentAdded' = FALSE
         /\ toVisit' = toAdd
         /\ stack' = WithTop([Top EXCEPT !.pc = "getTemplate"])
         /\ UNCHANGED <<sequenceTemplates, sequenceErrors, ctOk>>

\* buildAllSubsequences has returned: the check of its result, the check of
\* the missing sets, and getTemplate up to its first pass.
buildSequence_Check ==
    /\ stack # <<>>
    /\ Top.pc = "buildAllSubsequences"
    /\ Top.todo = {}
    /\ LET seq == allSequences[Top.name]
           sets == getActualSets(Top.subsequences)
           missingSets == getMissingSets(seq.Nodes, sets)
       IN  IF ~Top.ok
           THEN /\ buildSequence_Return(Top.name, Callers,
                       Error("failed to build subsequence(s)", {}), {})
                /\ UNCHANGED getTemplateVars
           ELSE IF DOMAIN missingSets # {}
           THEN /\ buildSequence_Return(Top.name, Callers,
                       Error("did not actually set job args declared in 'sets'",
                             {na \in NodeNames \X ArgNames :
                                 /\ na[1] \in DOMAIN missingSets
                                 /\ na[2] \in missingSets[na[1]]}),
                       {})
                /\ UNCHANGED getTemplateVars
           ELSE getTemplate_Loop(getAllSequenceArgs(seq), DOMAIN seq.Nodes,
                                 {})
    /\ UNCHANGED <<allSequences, ctPc, ctRange, builds, traverserVars>>

\* One iteration of the range over componentsToAdd, whose order is any:
\* a node whose dependencies are in the graph is checked for missing args
\* and inserted, and its Sets are added to jobArgs.
getTemplate_Visit(n) ==
    /\ stack # <<>>
    /\ Top.pc = "getTemplate"
    /\ n \in toVisit
    /\ LET seq == allSequences[Top.name]
           node == seq.Nodes[n]
       IN  IF dependenciesSatisfied(componentsAdded, node.Dependencies,
                                    seq.Nodes)
           THEN IF MalformedEach(node)
                THEN getTemplate_Fail(
                         Error("malformed input to each", {<<n, "">>}))
                ELSE IF getMissingArgs(node, jobArgs) # {}
                THEN getTemplate_Fail(
                         Error("missing job args",
                               {<<n, arg>> :
                                   arg \in getMissingArgs(node, jobArgs)}))
                ELSE /\ jobArgs' = jobArgs \cup
                                      {nodeSet.As : nodeSet \in node.Sets}
                     /\ componentsToAdd' = componentsToAdd \ {n}
                     /\ componentsAdded' = componentsAdded \cup {n}
                     /\ componentAdded' = TRUE
                     /\ toVisit' = toVisit \ {n}
                     /\ UNCHANGED <<sequenceTemplates, sequenceErrors, ctOk,
                                    stack>>
           ELSE /\ toVisit' = toVisit \ {n}
                /\ UNCHANGED <<sequenceTemplates, sequenceErrors, ctOk,
                               stack, jobArgs, componentsToAdd,
                               componentsAdded, componentAdded>>
    /\ UNCHANGED <<allSequences, ctPc, ctRange, builds, traverserVars>>

\* A loop that goes on whether or not a node was added.
AnotherPass == FALSE

\* if !componentAdded: the pass over componentsToAdd added no node.
NoNodeAdded == ~componentAdded

\* The range over componentsToAdd is over: without a node added the
\* dependencies are impossible; else the loop goes on while nodes are left.
getTemplate_PassDone ==
    /\ stack # <<>>
    /\ Top.pc = "getTemplate"
    /\ toVisit = {}
    /\ IF NoNodeAdded
       THEN getTemplate_Fail(
                Error("impossible dependencies found amongst",
                      {<<c, "">> : c \in componentsToAdd}))
       ELSE getTemplate_Loop(jobArgs, componentsToAdd, componentsAdded)
    /\ UNCHANGED <<allSequences, ctPc, ctRange, builds, traverserVars>>

GrapherNext ==
    \/ CreateTemplates_Call
    \/ \E name \in SequenceNames : CreateTemplates_Build(name)
    \/ CreateTemplates_Return
    \/ \E n \in NodeNames, name \in SequenceNames :
          buildAllSubsequences_Build(n, name)
    \/ buildSequence_Check
    \/ \E n \in NodeNames : getTemplate_Visit(n)
    \/ getTemplate_PassDone

\* The Request Manager with one of the modelled specs.
GrapherInit ==
    /\ allSequences \in TemplateSpecs \cup ReferenceSpecs
    /\ NewGrapher
    /\ NoParser
    /\ NoJobRunner

GrapherSpec == GrapherInit /\ [][GrapherNext]_vars

\* The Request Manager with specs of one sequence.
TemplateInit ==
    /\ allSequences \in TemplateSpecs
    /\ NewGrapher
    /\ NoParser
    /\ NoJobRunner

TemplateNext ==
    \/ CreateTemplates_Call
    \/ \E name \in SequenceNames : CreateTemplates_Build(name)
    \/ CreateTemplates_Return
    \/ buildSequence_Check
    \/ \E n \in NodeNames : getTemplate_Visit(n)
    \/ getTemplate_PassDone

\* CreateTemplates is one sequential call: it goes on while it can.
TemplateSpec ==
    /\ TemplateInit
    /\ [][TemplateNext]_vars
    /\ WF_vars(TemplateNext)

\* ------------------------------------------------------------------------
\* Properties of the model itself
\* ------------------------------------------------------------------------

TypeOK ==
    /\ topology \in Topologies
    /\ sequenceRetry \in 0 .. MaxSequenceRetry
    /\ outcome \in [Jobs -> Outcomes]
    /\ sjc.jobState \in [Jobs -> States]
    /\ resumed \in BOOLEAN
    /\ DOMAIN jobLogs \subseteq JobLogKeys
    /\ jobState \in [Jobs -> States]
    /\ reaper \in Reapers \cup {"nil"}
    /\ reaperPc \in [Reapers -> {"none", "recv", "enqueue", "done"}]
    /\ stopMux \in {"free", "Stop", "shutdown"}
    /\ runnerRepo \in [Jobs -> 0 .. MaxGoroutines]
    /\ runPc \in {"jc", "sjc", "rejected", "new", "seed", "wait",
                 "shutdown", "waitDone", "returned"}
    /\ runJobsPc \in {"off", "recv", "done"}
    /\ wPc \in [Workers -> {"idle", "start", "make", "dec", "run", "send"}]
    /\ spPc \in {"idle", "waitReaper", "stopRunningJobs", "waitSecond",
                 "forceStop", "returned"}
    /\ stopTimer \in {"off", "armed", "taken"}
    /\ DOMAIN allSequences \subseteq SequenceNames
    /\ DOMAIN sequenceTemplates \subseteq SequenceNames
    /\ \A q \in DOMAIN sequenceTemplates :
          sequenceTemplates[q].sets \subseteq ArgNames
    /\ DOMAIN sequenceErrors \subseteq SequenceNames
    /\ ctPc \in {"new", "range", "returned"}
    /\ ctRange \subseteq DOMAIN allSequences
    /\ ctOk \in BOOLEAN
    /\ Len(stack) <= MaxSequences
    /\ \A i \in 1 .. Len(stack) :
          stack[i].pc \in {"buildAllSubsequences", "getTemplate"}
    /\ jobArgs \subseteq ArgNames
    /\ componentsToAdd \subseteq NodeNames
    /\ componentsAdded \subseteq NodeNames
    /\ componentAdded \in BOOLEAN
    /\ toVisit \subseteq componentsToAdd
    /\ processed \in 0 .. MaxProcessed
    /\ DOMAIN specs = DOMAIN parsed
    /\ DOMAIN builds \subseteq SequenceNames
    /\ \A q \in DOMAIN builds : builds[q] \in Nat

\* runJobs never has to hold a job back for want of a goroutine slot.
SlotAvailable ==
    \A j \in enqueue \cup seedJobs :
        runJobsPc = "recv" => runJobs_CanReceive(j)

\* Run reaches its second select only with doneChan closed, so the 20 s
\* timer of that select never decides which case is taken.
RunWaitsOnClosedDoneChan == runPc = "waitDone" => Closed("doneChan")

\* A goroutine is alive: launched and not yet past its deferred function.
Alive(w) == wPc[w] # "idle"

\* A goroutine is in flight: launched, its runner.Run has not returned.
InFlight(w) == wPc[w] \in {"start", "make", "dec", "run"}


\* ------------------------------------------------------------------------
\* C1
\* ------------------------------------------------------------------------

\* C1: a job enters RUNNING only if, at that moment, every job it depends
\* on is COMPLETE.
C1_StartsOnlyAfterDependencies ==
    [][\A j \in Jobs :
          jobState[j] # "RUNNING" /\ jobState'[j] = "RUNNING"
              => \A d \in Deps(j) : jobState[d] = "COMPLETE"]_vars


\* ------------------------------------------------------------------------
\* C2
\* ------------------------------------------------------------------------

\* C2: whenever runJobs has returned (pendingChan is closed) and pending is
\* 0, the runner repo holds the runner of every goroutine that was launched
\* and whose runner.Run has not returned.
C2_PendingRendezvous ==
    Closed("pendingChan") /\ pending = 0
        => \A w \in Workers : InFlight(w) => runnerRepo[JobOf(w)] = w[2]


\* ------------------------------------------------------------------------
\* C3
\* ------------------------------------------------------------------------

\* C3: in every reachable state, a job whose chain state is RUNNING has its
\* id as a key of the runner repo.
C3_RunningJobsAreInRunnerRepo ==
    \A j \in Jobs : jobState[j] = "RUNNING" => runnerRepo[j] # 0


\* ------------------------------------------------------------------------
\* C4
\* ------------------------------------------------------------------------

\* C4: once Stop() has returned, by whatever path, the runner repo is empty
\* and no job of the chain is RUNNING.
C4_NothingRunsAfterStop ==
    stopped /\ spPc = "returned"
        => \A j \in Jobs : runnerRepo[j] = 0 /\ jobState[j] # "RUNNING"


\* ------------------------------------------------------------------------
\* C5
\* ------------------------------------------------------------------------

\* C5: of an each: group with Parallel = N, never more than N goroutines
\* are alive (between launch and finish) at the same time.
C5_ParallelLimit ==
    \A g \in EachGroups :
        Cardinality({w \in Workers : JobOf(w) \in g /\ Alive(w)})
            <= Parallel(g)


\* ------------------------------------------------------------------------
\* C6
\* ------------------------------------------------------------------------

\* A step stops no runner that was not stopped before.
NoRunnerStopped == \A w \in Workers : wStopSig'[w] => wStopSig[w]

\* C6: stopped and suspended are never both true, neither is ever reset,
\* and once the traverser is stopped or suspended and the Stop() or
\* shutdown() that did it has returned, no step (so no later Stop() or
\* shutdown()) closes stopChan or doneChan, swaps the reaper, stops a
\* runner or takes stopMux for more than the check.
C6_OneWayMode ==
    /\ [](~(stopped /\ suspended))
    /\ [][(stopped => stopped') /\ (suspended => suspended')]_vars
    /\ [][AlreadyStoppedOrSuspended /\ stopMux = "free"
              => /\ closes'["stopChan"] = closes["stopChan"]
                 /\ closes'["doneChan"] = closes["doneChan"]
                 /\ reaper' = reaper
                 /\ NoRunnerStopped
                 /\ stopMux' = "free"]_vars

\* Stop() has been called on a suspended traverser.
C6_StopAfterShutdown ==
    suspended /\ spPc = "returned" /\ againRet = "ErrShuttingDown"


\* ------------------------------------------------------------------------
\* C7
\* ------------------------------------------------------------------------

\* C7: a Stop() on a stopped traverser returns nil and one on a suspended
\* traverser returns ErrShuttingDown, both without changing anything; and
\* the stop procedure is performed by one caller only, the holder of
\* stopMux: stopChan and doneChan are closed at most once.
C7_StopIdempotent ==
    /\ [](againRet = "nil" => stopped)
    /\ [](againRet = "ErrShuttingDown" => suspended /\ ~stopped)
    /\ [][againRet' # againRet
              => UNCHANGED <<chainVars, reaperVars, flagVars, pending,
                             runnerRepo, runVars, runJobsPc, workerVars,
                             spPc, spErr, stopRet, stopTimer, panicked>>]_vars
    /\ [](closes["stopChan"] <= 1 /\ closes["doneChan"] <= 1)
    /\ [](~panicked =>
            (stopMux # "free" <=>
                spPc \in {"waitReaper", "stopRunningJobs", "waitSecond",
                          "forceStop"}))
    /\ [](stopMux = "Stop" => stopped)
    /\ [](stopMux = "shutdown" => suspended)

\* Stop() has been called again after a Stop() that returned.
C7_StopAfterStop == stopRet # "none" /\ againRet = "nil"


\* ------------------------------------------------------------------------
\* C8
\* ------------------------------------------------------------------------

\* The reapers that are receiving on doneJobChan (or sending the next
\* jobs, to receive again afterwards).
ActiveReapers == {r \in Reapers : reaperPc[r] \in {"recv", "enqueue"}}

\* C8: at most one reaper is active at any instant, and the running reaper
\* has returned whenever the stopped or suspended reaper is installed.
C8_OneActiveReaper ==
    /\ Cardinality(ActiveReapers) <= 1
    /\ reaper \in {"stopped", "suspended"} => reaperPc["running"] = "done"

\* The stopped reaper is installed and receiving.
C8_StoppedReaperActive == reaper = "stopped" /\ reaperPc["stopped"] = "recv"


\* ------------------------------------------------------------------------
\* C9
\* ------------------------------------------------------------------------

\* C9: a Stop() whose stopRunningJobs has returned, even with the error of
\* its timeout, returns and closes doneChan, whether or not the jobs
\* finish.
C9_StopReturns ==
    (stopped /\ spPc = "waitSecond")
        ~> (spPc = "returned" /\ Closed("doneChan"))


\* ------------------------------------------------------------------------
\* C10
\* ------------------------------------------------------------------------

\* The end of a normal run: the chain is done, the running reaper has
\* returned, runJobChan and pendingChan are closed, runJobs and Run have
\* returned.
NormalRunEnded ==
    /\ IsDoneRunning
    /\ reaperPc["running"] = "done"
    /\ Closed("runJobChan")
    /\ runJobsPc = "done"
    /\ Closed("pendingChan")
    /\ runPc = "returned"

\* C10: a run without Stop and shutdown in which every runner.Run returns
\* eventually has ended: Run() has returned with the chain done.
C10_NormalRunTerminates == <>NormalRunEnded


\* ------------------------------------------------------------------------
\* C11
\* ------------------------------------------------------------------------

\* C11: when Run() returns on a traverser that has been stopped or
\* suspended, doneChan is closed.
C11_RunReturnsAfterDoneChan ==
    [][runPc # "returned" /\ runPc' = "returned" /\ (stopped \/ suspended)
           => Closed("doneChan")]_vars

\* Run() has returned on a traverser stopped in mid-run: the running reaper
\* returned without finalizing and the stopped reaper was force-stopped.
C11_RunReturnedStopped == runPc = "returned" /\ stopped /\ rmPosted = {}


\* ------------------------------------------------------------------------
\* C13
\* ------------------------------------------------------------------------

\* C13: MakeFromSJC makes every job that is STOPPED in the SJC PENDING with
\* its job tries one lower, and the sequence tries one lower if it is a
\* sequence start job; every other job keeps its state and its counters.
C13_RewritesStoppedJobs ==
    [][runPc = "sjc" /\ runPc' # "sjc" =>
        \A j \in Jobs :
            IF sjc.jobState[j] = "STOPPED"
            THEN /\ jobState'[j] = "PENDING"
                 /\ totalJobTries'[j] = sjc.totalJobTries[j] - 1
                 /\ latestRunJobTries'[j] = sjc.latestRunJobTries[j] - 1
                 /\ sequenceTries'[j] =
                        IF IsSequenceStartJob(j)
                        THEN sjc.sequenceTries[j] - 1
                        ELSE sjc.sequenceTries[j]
            ELSE /\ jobState'[j] = sjc.jobState[j]
                 /\ totalJobTries'[j] = sjc.totalJobTries[j]
                 /\ latestRunJobTries'[j] = sjc.latestRunJobTries[j]
                 /\ sequenceTries'[j] = sjc.sequenceTries[j]]_vars

\* A traverser made from an SJC in which a sequence start job is STOPPED
\* and another job is not.
C13_MadeFromStopped ==
    /\ resumed
    /\ runPc = "new"
    /\ \E j, k \in Jobs :
          /\ sjc.jobState[j] = "STOPPED" /\ IsSequenceStartJob(j)
          /\ sjc.jobState[k] = "COMPLETE"


\* ------------------------------------------------------------------------
\* C14
\* ------------------------------------------------------------------------

\* C14: the chain MakeFromSJC builds from the SJC of a job chain on which
\* no work has begun is the chain Make builds from the job chain.
C14_RoundTripWithoutWork ==
    [][/\ runPc = "jc" \/ (runPc = "sjc" /\ sjc = FreshChain)
       /\ runPc' \notin {"jc", "sjc"}
       => NewChain']_vars

\* A traverser made by MakeFromSJC from the SJC of a fresh job chain.
C14_MadeFromFreshSJC == resumed /\ runPc = "new" /\ sjc = FreshChain


\* ------------------------------------------------------------------------
\* C15
\* ------------------------------------------------------------------------

\* No traverser has been made: no reaper, no runJobs, no goroutine.
NoTraverser ==
    /\ reaper = "nil"
    /\ runJobsPc = "off"
    /\ \A w \in Workers : wPc[w] = "idle"

\* C15: Make and MakeFromSJC called for a chain whose request id is in
\* the chain repo return an error and make no traverser, then and ever
\* after; the traverser that holds the id stays the only one.
C15_DuplicateRejected ==
    /\ [][(runPc \in {"jc", "sjc"} /\ runPc' # runPc /\ inChainRepo)
              => (runPc' = "rejected" /\ inChainRepo' = TRUE)]_vars
    /\ [](runPc = "rejected" => NoTraverser)
    /\ [][runPc = "rejected" => runPc' = "rejected"]_vars

\* MakeFromSJC has returned an error for a chain that was in the repo.
C15_RejectedFromSJC == runPc = "rejected" /\ resumed /\ inChainRepo


\* ------------------------------------------------------------------------
\* C16
\* ------------------------------------------------------------------------

\* The chain has been marked failed: its final state has gone to the
\* Request Manager and some job of it is not COMPLETE.
ChainMarkedFailed ==
    "final" \in rmPosted /\ \E j \in Jobs : jobState[j] # "COMPLETE"

\* C16: when the chain repo's Add has failed in make, Run() returns in the
\* end with the chain marked failed.
C16_AddFailureFailsChain ==
    runPc = "rejected" ~> (runPc = "returned" /\ ChainMarkedFailed)


\* ------------------------------------------------------------------------
\* C17
\* ------------------------------------------------------------------------

\* C17: the chain's request id is out of the chain repo when Run() has
\* returned, by whatever path, and in it as long as Run() has not.
C17_RemovedWhenRunReturns == runPc = "returned" <=> ~inChainRepo

\* Run() has returned on a suspended traverser.
C17_RunReturnedSuspended ==
    runPc = "returned" /\ suspended /\ ~inChainRepo


\* ------------------------------------------------------------------------
\* C18
\* ------------------------------------------------------------------------

\* C18: no two job logs are sent to the Request Manager for the same job
\* and the same try.
C18_NoDuplicateJobLog == \A k \in DOMAIN jobLogs : jobLogs[k] <= 1


\* ------------------------------------------------------------------------
\* C19
\* ------------------------------------------------------------------------

\* Every runner registered in the runner repo has been told to stop.
RegisteredRunnersStopped ==
    \A w \in Workers : runnerRepo[JobOf(w)] = w[2] => wStopSig[w]

\* All running jobs have settled: no goroutine of runJobs is alive.
JobsSettled == \A w \in Workers : ~Alive(w)

\* C19: a shutdown() closes stopChan and puts the suspended reaper in the
\* place of the running reaper; the SJC is posted only after all running
\* jobs have settled; and when doneChan is closed all registered runners
\* have been stopped and the SJC of a chain that is not done has been
\* posted.
C19_Suspend ==
    /\ [](suspended => Closed("stopChan"))
    /\ [](suspended /\ spPc \notin {"idle", "waitReaper"}
              => reaper = "suspended")
    /\ [][("sjc" \notin rmPosted /\ "sjc" \in rmPosted') => JobsSettled]_vars
    /\ [](suspended /\ Closed("doneChan") => RegisteredRunnersStopped)
    /\ [](suspended /\ Closed("doneChan") /\ ~IsDoneRunning
              => "sjc" \in rmPosted)


\* ------------------------------------------------------------------------
\* C20
\* ------------------------------------------------------------------------

\* C20: at every instant every JobStatus Running() returns is of a job
\* whose chain state is RUNNING, and every job whose chain state is
\* RUNNING has a JobStatus in what Running() returns.
C20_RunningReturnsRunningJobs ==
    /\ \A js \in Running : js.State = "RUNNING"
    /\ \A j \in Jobs :
          jobState[j] = "RUNNING" => \E js \in Running : js.JobId = j


\* ------------------------------------------------------------------------
\* C12
\* ------------------------------------------------------------------------

\* No sequence of the chain is ever retried: no retry is allowed or no job
\* fails.
NoSequenceRetried ==
    \/ sequenceRetry = 0
    \/ \A j \in Jobs : outcome[j] = "COMPLETE"

\* When no sequence is retried, the uninterrupted run and the run of the
\* traverser made from the SJC both end, and end in the job states of
\* UninterruptedFinal.
ResumeEquivalenceWithoutRetry ==
    /\ [][(NoSequenceRetried /\ (resumed \/ ~Closed("shutdownChan"))
            /\ runPc # "returned" /\ runPc' = "returned")
           => jobState' = UninterruptedFinal]_vars
    /\ (NoSequenceRetried /\ resumed) ~> runPc = "returned"

\* C12: for every chain of idempotent jobs and every point at which a
\* shutdown suspends it, the Run of the traverser MakeFromSJC makes from
\* the SJC returns, and when it returns the job states of the chain are
\* those in which the original chain ends when it is run uninterrupted.
C12_ResumeEquivalence ==
    /\ [][(resumed /\ runPc # "returned" /\ runPc' = "returned")
           => jobState' = UninterruptedFinal]_vars
    /\ resumed ~> runPc = "returned"


\* ------------------------------------------------------------------------
\* C21
\* ------------------------------------------------------------------------

\* The args a node consumes: the collection arg of each entry of Each, the
\* If arg and the Given of each entry of Args.
Consumed(node) ==
    {each[1] : each \in {e \in node.Each : e # <<"">>}}
        \cup (IF node.If # "nil" THEN {node.If} ELSE {})
        \cup {arg.Given : arg \in node.Args}

\* The nodes of `set` and all their transitive dependencies.
RECURSIVE DependencyClosure(_, _)
DependencyClosure(nodes, set) ==
    LET more == set \cup UNION {nodes[m].Dependencies \cap DOMAIN nodes :
                                   m \in set}
    IN  IF more = set THEN set ELSE DependencyClosure(nodes, more)

\* The nodes upstream of node n: its transitive dependencies.
Upstream(nodes, n) ==
    DependencyClosure(nodes, nodes[n].Dependencies \cap DOMAIN nodes)

\* The args the nodes of `set` produce: the As of their Sets.
Produced(nodes, set) ==
    UNION {{nodeSet.As : nodeSet \in nodes[m].Sets} : m \in set}

\* C21: in every sequence that has a template, every arg a node consumes
\* is a declared arg of the sequence or is produced by a node upstream of
\* the node.
C21_ConsumedArgsProducedUpstream ==
    \A q \in DOMAIN sequenceTemplates :
        \A n \in DOMAIN allSequences[q].Nodes :
            Consumed(allSequences[q].Nodes[n]) \subseteq
                getAllSequenceArgs(allSequences[q])
                    \cup Produced(allSequences[q].Nodes,
                                  Upstream(allSequences[q].Nodes, n))


\* ------------------------------------------------------------------------
\* C22
\* ------------------------------------------------------------------------

\* C22: no sequence name is ever a key of both sequenceTemplates and
\* sequenceErrors, and once CreateTemplates has returned every sequence
\* name of the specs is a key of one of the two.
C22_MapsDisjointAndCover ==
    /\ DOMAIN sequenceTemplates \cap DOMAIN sequenceErrors = {}
    /\ ctPc = "returned" =>
          DOMAIN allSequences
              \subseteq DOMAIN sequenceTemplates \cup DOMAIN sequenceErrors

\* CreateTemplates has returned with templates and with errors.
C22_ReturnedWithBoth ==
    /\ ctPc = "returned"
    /\ DOMAIN sequenceTemplates # {}
    /\ DOMAIN sequenceErrors # {}


\* ------------------------------------------------------------------------
\* C24
\* ------------------------------------------------------------------------

\* buildAllSubsequences has built every subsequence of the sequence of the
\* innermost call: buildSequence is about to compute the actual sets.
SubsequencesBuilt ==
    /\ stack # <<>>
    /\ Top.pc = "buildAllSubsequences"
    /\ Top.todo = {}
    /\ Top.ok

\* The branches of a conditional node that are sequences.
Branches(node) == node.Eq \cap DOMAIN allSequences

\* C24: when buildSequence computes the actual sets, those of a sequence
\* node are the sets of the template of the sequence it names, and those of
\* a conditional node are the args that are in the sets of the template of
\* every branch of its Eq that is a sequence.
C24_ActualSetsOfAllBranches ==
    SubsequencesBuilt =>
        \A n \in DOMAIN allSequences[Top.name].Nodes :
            LET node == allSequences[Top.name].Nodes[n]
                actualSets == getActualSets(Top.subsequences)
            IN  /\ IsSequence(node) =>
                      /\ n \in DOMAIN actualSets
                      /\ actualSets[n] = sequenceTemplates[node.NodeType].sets
                /\ IsConditional(node) /\ Branches(node) # {} =>
                      /\ n \in DOMAIN actualSets
                      /\ actualSets[n] =
                            {arg \in ArgNames :
                                \A q \in Branches(node) :
                                    arg \in sequenceTemplates[q].sets}

\* The actual sets are computed for a conditional node with two branches
\* whose templates have different sets.
C24_BranchesDiffer ==
    /\ SubsequencesBuilt
    /\ \E n \in DOMAIN allSequences[Top.name].Nodes :
          LET node == allSequences[Top.name].Nodes[n]
          IN  /\ IsConditional(node)
              /\ \E q, r \in Branches(node) :
                    sequenceTemplates[q].sets # sequenceTemplates[r].sets


\* ------------------------------------------------------------------------
\* C23
\* ------------------------------------------------------------------------

\* The (node, arg) pairs of the sequence of the innermost call where the
\* node has actual sets and its Sets declare the arg, which is not in them.
SetsNotProduced ==
    LET nodes == allSequences[Top.name].Nodes
        actualSets == getActualSets(Top.subsequences)
    IN  {na \in (DOMAIN nodes) \X ArgNames :
            /\ na[1] \in DOMAIN actualSets
            /\ \E nodeSet \in nodes[na[1]].Sets : nodeSet.Arg = na[2]
            /\ na[2] \notin actualSets[na[1]]}

\* C23: when the subsequences of a sequence are built and a sequence or
\* conditional node declares in its Sets an arg that is not in its actual
\* sets, the sequence gets the error that names exactly the (node, missing
\* arg) pairs, and no template; when there is no such arg the sequence gets
\* no error at this check and getTemplate starts.
C23_SetsNotProduced ==
    [][SubsequencesBuilt =>
          IF SetsNotProduced # {}
          THEN /\ Top.name \in DOMAIN sequenceErrors'
               /\ sequenceErrors'[Top.name] =
                     Error("did not actually set job args declared in 'sets'",
                           SetsNotProduced)
               /\ Top.name \notin DOMAIN sequenceTemplates'
          ELSE /\ Top.name \notin DOMAIN sequenceErrors'
               /\ stack'[Len(stack)].pc = "getTemplate"]_vars

\* A sequence has the error of the sets that are not produced, and no
\* template.
C23_FailedOnSets ==
    \E q \in DOMAIN sequenceErrors :
        /\ sequenceErrors[q].msg =
              "did not actually set job args declared in 'sets'"
        /\ sequenceErrors[q].about # {}
        /\ q \notin DOMAIN sequenceTemplates


\* ------------------------------------------------------------------------
\* C25
\* ------------------------------------------------------------------------

\* The As names of the Sets of a node.
SetsAs(node) == {nodeSet.As : nodeSet \in node.Sets}

\* The paths through the graph of a sequence from its start to its end: a
\* path begins at a node without dependencies, goes from a node to a node
\* that depends on it, and ends at a node on which no node depends.
CompletingPaths(nodes) ==
    {path \in UNION {[1 .. k -> DOMAIN nodes] : k \in 1 .. MaxNodes} :
        /\ nodes[path[1]].Dependencies = {}
        /\ \A i \in 1 .. (Len(path) - 1) :
              path[i] \in nodes[path[i + 1]].Dependencies
        /\ \A m \in DOMAIN nodes :
              path[Len(path)] \notin nodes[m].Dependencies}

\* C25 as stated: the sets of every template are the args that are among
\* the As names of the Sets of the nodes of every completing path through
\* its graph.
C25_SetsOfAllPaths ==
    \A q \in DOMAIN sequenceTemplates :
        sequenceTemplates[q].sets =
            {arg \in ArgNames :
                \A path \in CompletingPaths(allSequences[q].Nodes) :
                    \E i \in DOMAIN path :
                        arg \in SetsAs(allSequences[q].Nodes[path[i]])}

\* C25 amended: the sets of every template are the required, optional and
\* static args of its sequence and the As names of the Sets of all its
\* nodes.
C25_SetsOfAllNodes ==
    \A q \in DOMAIN sequenceTemplates :
        sequenceTemplates[q].sets =
            allSequences[q].Args.Required \cup allSequences[q].Args.Optional
                \cup allSequences[q].Args.Static
                \cup UNION {SetsAs(allSequences[q].Nodes[n]) :
                               n \in DOMAIN allSequences[q].Nodes}

\* A template of a sequence with args, and with two nodes that set
\* different args.
C25_TemplateWithArgsAndSets ==
    \E q \in DOMAIN sequenceTemplates :
        /\ allSequences[q].Args.Required # {}
        /\ \E n, m \in DOMAIN allSequences[q].Nodes :
              /\ SetsAs(allSequences[q].Nodes[n]) # {}
              /\ SetsAs(allSequences[q].Nodes[m]) # {}
              /\ SetsAs(allSequences[q].Nodes[n])
                    # SetsAs(allSequences[q].Nodes[m])


\* ------------------------------------------------------------------------
\* C26
\* ------------------------------------------------------------------------

\* The sequences that the nodes of a sequence reference: by the type of a
\* sequence node, or by a value of the Eq of a conditional node that is a
\* sequence.
References(seq) ==
    UNION {IF IsSequence(seq.Nodes[n]) THEN {seq.Nodes[n].NodeType}
           ELSE IF IsConditional(seq.Nodes[n]) THEN Branches(seq.Nodes[n])
           ELSE {} : n \in DOMAIN seq.Nodes}

\* The sequences that a set of sequences references, at any depth.
RECURSIVE ReferenceClosure(_)
ReferenceClosure(set) ==
    LET more == set \cup UNION {References(allSequences[q]) :
                                   q \in set \cap DOMAIN allSequences}
    IN  IF more = set THEN set ELSE ReferenceClosure(more)

\* A sequence that is valid by itself, given the templates of the sequences
\* it references: the dependencies of its nodes are nodes and have no
\* cycle, no Each is malformed, every node consumes only args of the
\* sequence or args set upstream of it, and the Sets of its sequence and
\* conditional nodes are in the sets of the templates they reference.
ValidItself(q) ==
    LET seq == allSequences[q]
        nodes == seq.Nodes
    IN  \A n \in DOMAIN nodes :
            /\ nodes[n].Dependencies \subseteq DOMAIN nodes
            /\ n \notin Upstream(nodes, n)
            /\ ~MalformedEach(nodes[n])
            /\ Consumed(nodes[n]) \subseteq
                  seq.Args.Required \cup seq.Args.Optional
                      \cup seq.Args.Static
                      \cup Produced(nodes, Upstream(nodes, n))
            /\ \A r \in References([Nodes |-> [m \in {n} |-> nodes[n]]]) :
                  \A nodeSet \in nodes[n].Sets :
                      nodeSet.Arg \in sequenceTemplates[r].sets

\* C26: a built sequence that references a sequence whose build failed has
\* the error "failed to build subsequence(s)"; and once CreateTemplates has
\* returned, a sequence that is valid by itself and whose referenced
\* sequences, at any depth, all have templates has a template.
C26_CascadeAndIsolation ==
    \A q \in DOMAIN allSequences :
        /\ (/\ buildSequence_Built(q)
            /\ References(allSequences[q]) \cap DOMAIN sequenceErrors # {})
              => /\ q \in DOMAIN sequenceErrors
                 /\ sequenceErrors[q].msg = "failed to build subsequence(s)"
        /\ (/\ ctPc = "returned"
            /\ ReferenceClosure(References(allSequences[q]))
                  \subseteq DOMAIN sequenceTemplates
            /\ ValidItself(q))
              => q \in DOMAIN sequenceTemplates

\* CreateTemplates has returned: a sequence failed, a sequence that
\* references it failed with it, and another sequence has a template.
C26_FailedAndBuilt ==
    /\ ctPc = "returned"
    /\ \E q \in DOMAIN sequenceErrors, r \in DOMAIN sequenceErrors :
          /\ q \in DOMAIN allSequences
          /\ r \in References(allSequences[q])
    /\ DOMAIN sequenceTemplates # {}


\* ------------------------------------------------------------------------
\* C27
\* ------------------------------------------------------------------------

\* A pass of the insertion loop of getTemplate is over.
PassOver ==
    /\ stack # <<>>
    /\ Top.pc = "getTemplate"
    /\ toVisit = {}

\* The nodes of the sequence of the innermost call that are not inserted.
NotInserted == DOMAIN allSequences[Top.name].Nodes \ componentsAdded

\* C27: CreateTemplates returns, so every insertion loop ends; a pass in
\* which a node is inserted is marked as such; and the step after a pass
\* without insertion gives the sequence the error "impossible dependencies
\* found amongst" about exactly the nodes not inserted, and no template.
C27_InsertionLoopTerminates ==
    /\ <>(ctPc = "returned")
    /\ [][/\ (stack # <<>> /\ Top.pc = "getTemplate"
                 /\ componentsAdded' # componentsAdded
                 /\ componentsAdded \subseteq componentsAdded')
                => componentAdded'
          /\ (PassOver /\ componentAdded)
                => /\ NotInserted # DOMAIN allSequences[Top.name].Nodes
                   /\ Top.name \notin DOMAIN sequenceErrors'
          /\ (PassOver /\ ~componentAdded)
                => /\ Top.name \in DOMAIN sequenceErrors'
                   /\ sequenceErrors'[Top.name] =
                         Error("impossible dependencies found amongst",
                               {<<c, "">> : c \in NotInserted})
                   /\ Top.name \notin DOMAIN sequenceTemplates']_vars

\* A sequence failed on impossible dependencies after a node of it was
\* inserted: the error is about some of its nodes, not all.
C27_FailedAfterInsertion ==
    \E q \in DOMAIN sequenceErrors :
        /\ sequenceErrors[q].msg = "impossible dependencies found amongst"
        /\ sequenceErrors[q].about # {}
        /\ sequenceErrors[q].about
              # {<<c, "">> : c \in DOMAIN allSequences[q].Nodes}


\* ------------------------------------------------------------------------
\* C28
\* ------------------------------------------------------------------------

\* C28: the body of buildSequence past its check of the two maps runs at
\* most once for every sequence name.
C28_BuiltAtMostOnce == \A q \in DOMAIN builds : builds[q] <= 1

\* CreateTemplates has returned, and a sequence that two sequences
\* reference was built once.
C28_ReferencedTwiceBuiltOnce ==
    /\ ctPc = "returned"
    /\ \E q \in DOMAIN builds :
          /\ builds[q] = 1
          /\ \E r, t \in DOMAIN allSequences :
                /\ r # t
                /\ q \in References(allSequences[r])
                /\ q \in References(allSequences[t])


\* ------------------------------------------------------------------------
\* The spec parser: ProcessSpecs
\* ------------------------------------------------------------------------

\* The args and the sets of a parsed node: a Given or an As that the YAML
\* lacks is the nil pointer, "nil".
ParsedArgs ==
    {<<>>,
     <<[Expected |-> "arg-a", Given |-> "nil"]>>,
     <<[Expected |-> "arg-b", Given |-> "arg-b0"]>>,
     <<[Expected |-> "arg-d", Given |-> "arg-d0"],
       [Expected |-> "arg-e", Given |-> "nil"]>>}
ParsedSets ==
    {<<>>,
     <<[Arg |-> "arg-b", As |-> "nil"]>>,
     <<[Arg |-> "arg-c0", As |-> "arg-c"]>>,
     <<[Arg |-> "arg-f0", As |-> "arg-f"],
       [Arg |-> "arg-g", As |-> "nil"]>>}

\* The nodes as the parser leaves them, like those of TestProcessSpecs: a
\* job node or a conditional node, without Name, with or without retries
\* and RetryWait.
ParsedNodes ==
    [Name : {""}, Category : {"job"}, NodeType : {"job-type-a"},
     Each : {<<"list:element">>}, If : {"nil"}, Eq : {<<>>},
     Args : ParsedArgs, Sets : ParsedSets, Dependencies : {<<>>},
     Retry : {0, 3}, RetryWait : {"", "10s"}]
        \cup
    [Name : {""}, Category : {"conditional"}, NodeType : {"seq-c"},
     Each : {<<>>}, If : {"arg-if"},
     Eq : {[k \in {"cond-1", "default"} |->
              IF k = "cond-1" THEN "seq-1" ELSE "default"]},
     Args : ParsedArgs, Sets : ParsedSets, Dependencies : {<<"node-1">>},
     Retry : {0, 3}, RetryWait : {"", "10s"}]

\* The node names of a parsed sequence.
ParsedNodeNames == {{"node-a"}, {"node-a", "node-b"}}

\* The specs as the parser leaves them: the sequence seq-a.
ParsedSpecs ==
    {[K \in {"seq-a"} |->
        [Name |-> "", Request |-> TRUE,
         Args |-> [Required |-> <<"required-a">>,
                   Optional |-> <<"optional-a">>,
                   Static |-> <<"static-a">>],
         Nodes |-> nodes]] :
        nodes \in UNION {[names -> ParsedNodes] : names \in ParsedNodeNames}}

\* A ProcessSpecs that sets every Given and every As.
SetsAny(value) == TRUE

\* An arg without Given, a set without As: value is the pointer.
Lacks(value) == value = "nil"

\* A ProcessSpecs that gives every empty RetryWait the default.
DefaultsAnyRetryWait(node) == node.RetryWait = ""

\* A node whose RetryWait gets its default.
DefaultsRetryWait(node) == node.RetryWait = "" /\ node.Retry > 0

\* ProcessSpecs for the node whose key is K.
ProcessNode(K, node) ==
    [node EXCEPT
        !.Name = K,
        !.Args = [i \in DOMAIN node.Args |->
                     IF Lacks(node.Args[i].Given)
                     THEN [node.Args[i] EXCEPT
                              !.Given = node.Args[i].Expected]
                     ELSE node.Args[i]],
        !.Sets = [i \in DOMAIN node.Sets |->
                     IF Lacks(node.Sets[i].As)
                     THEN [node.Sets[i] EXCEPT !.As = node.Sets[i].Arg]
                     ELSE node.Sets[i]],
        !.RetryWait = IF DefaultsRetryWait(node) THEN "0s" ELSE @]

\* ProcessSpecs(specs): the specs it leaves.
ProcessSpecs(s) ==
    [K \in DOMAIN s |->
        [s[K] EXCEPT
            !.Name = K,
            !.Nodes = [N \in DOMAIN s[K].Nodes |->
                          ProcessNode(N, s[K].Nodes[N])]]]

\* err := ProcessSpecs(specs), on specs that may be processed already.
ProcessSpecs_Call ==
    /\ processed < MaxProcessed
    /\ specs' = ProcessSpecs(specs)
    /\ processed' = processed + 1
    /\ UNCHANGED <<parsed, allSequences, sequenceTemplates, sequenceErrors,
                   ctPc, ctRange, ctOk, stack, getTemplateVars, builds,
                   jobRunnerVars>>

\* The parser has read one of the modelled specs.
ParserInit ==
    /\ allSequences = <<>>
    /\ NewGrapher
    /\ NoJobRunner
    /\ parsed \in ParsedSpecs
    /\ specs = parsed
    /\ processed = 0

ParserNext == ProcessSpecs_Call

ParserSpec == ParserInit /\ [][ParserNext]_vars


\* ------------------------------------------------------------------------
\* C29
\* ------------------------------------------------------------------------

\* The Args and Sets of the node `after` are those of the node `before`
\* with Expected for every Given that lacks and Arg for every As that
\* lacks.
RenameDefaultsFilled(before, after) ==
    /\ DOMAIN after.Args = DOMAIN before.Args
    /\ \A i \in DOMAIN before.Args :
          /\ after.Args[i].Expected = before.Args[i].Expected
          /\ after.Args[i].Given =
                IF before.Args[i].Given = "nil"
                THEN before.Args[i].Expected
                ELSE before.Args[i].Given
    /\ DOMAIN after.Sets = DOMAIN before.Sets
    /\ \A i \in DOMAIN before.Sets :
          /\ after.Sets[i].Arg = before.Sets[i].Arg
          /\ after.Sets[i].As =
                IF before.Sets[i].As = "nil"
                THEN before.Sets[i].Arg
                ELSE before.Sets[i].As

\* The fields of a node but Args, Sets, Name and RetryWait are the same.
OtherFieldsKept(before, after) ==
    /\ after.Category = before.Category
    /\ after.NodeType = before.NodeType
    /\ after.Each = before.Each
    /\ after.If = before.If
    /\ after.Eq = before.Eq
    /\ after.Dependencies = before.Dependencies
    /\ after.Retry = before.Retry

\* C29 as stated: an application of ProcessSpecs fills the Given and the
\* As that lack, keeps those that are there, and leaves every other field
\* of every node as it was; a second application changes nothing.
C29_OnlyRenameDefaults ==
    [][processed' # processed =>
          /\ \A K \in DOMAIN specs : \A N \in DOMAIN specs[K].Nodes :
                /\ RenameDefaultsFilled(specs[K].Nodes[N],
                                        specs'[K].Nodes[N])
                /\ OtherFieldsKept(specs[K].Nodes[N], specs'[K].Nodes[N])
                /\ specs'[K].Nodes[N].Name = specs[K].Nodes[N].Name
                /\ specs'[K].Nodes[N].RetryWait
                      = specs[K].Nodes[N].RetryWait
          /\ processed >= 1 => specs' = specs]_vars

\* C29 amended: an application of ProcessSpecs fills the Given and the As
\* that lack, keeps those that are there, and leaves every other field of
\* every node as it was but Name, which becomes the key of the node, and
\* RetryWait, which becomes "0s" when it is empty and Retry > 0; a second
\* application changes nothing.
C29_RenameDefaultsNameAndRetryWait ==
    [][processed' # processed =>
          /\ \A K \in DOMAIN specs : \A N \in DOMAIN specs[K].Nodes :
                /\ RenameDefaultsFilled(specs[K].Nodes[N],
                                        specs'[K].Nodes[N])
                /\ OtherFieldsKept(specs[K].Nodes[N], specs'[K].Nodes[N])
                /\ specs'[K].Nodes[N].Name = N
                /\ specs'[K].Nodes[N].RetryWait =
                      IF /\ specs[K].Nodes[N].RetryWait = ""
                         /\ specs[K].Nodes[N].Retry > 0
                      THEN "0s"
                      ELSE specs[K].Nodes[N].RetryWait
          /\ processed >= 1 => specs' = specs]_vars

\* ProcessSpecs was applied twice to a node that had an arg without Given
\* and one with Given, and a set without As and one with As.
C29_ProcessedTwice ==
    /\ processed = 2
    /\ \E K \in DOMAIN parsed : \E N \in DOMAIN parsed[K].Nodes :
          LET node == parsed[K].Nodes[N]
          IN  /\ \E i, j \in DOMAIN node.Args :
                    node.Args[i].Given = "nil" /\ node.Args[j].Given # "nil"
              /\ \E i, j \in DOMAIN node.Sets :
                    node.Sets[i].As = "nil" /\ node.Sets[j].As # "nil"

\* ------------------------------------------------------------------------
\* C30
\* ------------------------------------------------------------------------

\* C30: after ProcessSpecs the RetryWait of a node is "0s" exactly when the
\* parser left it empty with Retry > 0; a RetryWait that was not empty is
\* the same, and one that was empty with Retry = 0 is empty.
C30_RetryWaitDefault ==
    processed >= 1 =>
        \A K \in DOMAIN parsed : \A N \in DOMAIN parsed[K].Nodes :
            LET before == parsed[K].Nodes[N]
                after == specs[K].Nodes[N]
            IN  /\ after.RetryWait = "0s"
                      <=> (before.RetryWait = "" /\ before.Retry > 0)
                /\ before.RetryWait # "" =>
                      after.RetryWait = before.RetryWait
                /\ (before.RetryWait = "" /\ before.Retry = 0) =>
                      after.RetryWait = ""

\* ProcessSpecs was applied to a node with retries and to one without,
\* both without RetryWait.
C30_ProcessedRetryWaits ==
    /\ processed >= 1
    /\ \E K \in DOMAIN parsed : \E N, M \in DOMAIN parsed[K].Nodes :
          /\ parsed[K].Nodes[N].RetryWait = ""
          /\ parsed[K].Nodes[N].Retry > 0
          /\ specs[K].Nodes[N].RetryWait = "0s"
          /\ parsed[K].Nodes[M].RetryWait = ""
          /\ parsed[K].Nodes[M].Retry = 0


\* ------------------------------------------------------------------------
\* C31
\* ------------------------------------------------------------------------

\* runJobs takes job j off runJobChan in this step: Run or the running
\* reaper has sent it.
runJobs_Received(j) ==
    \/ j \in seedJobs /\ j \notin seedJobs'
    \/ j \in enqueue /\ j \notin enqueue' /\ reaperPc["running"] = "enqueue"

\* runJobs leaves everything but the channel as it is when it receives a
\* job with stopChan closed: no goroutine is launched, and pending, the
\* runner repo and the chain are the same.
DrainHasNoEffect ==
    [][\A j \in Jobs :
          (Closed("stopChan") /\ runJobs_Received(j)) =>
              /\ wPc' = wPc
              /\ wState' = wState
              /\ pending' = pending
              /\ runnerRepo' = runnerRepo
              /\ jobState' = jobState
              /\ sequenceTries' = sequenceTries
              /\ totalJobTries' = totalJobTries
              /\ latestRunJobTries' = latestRunJobTries]_vars

\* C31: a job that runJobs receives with stopChan closed is dropped: no
\* goroutine is launched, pending and the runner repo are the same, and
\* the job is PENDING with no tries in its sequence try, before and after.
C31_DrainedWithoutEffect ==
    [][\A j \in Jobs :
          (Closed("stopChan") /\ runJobs_Received(j)) =>
              /\ wPc' = wPc
              /\ pending' = pending
              /\ runnerRepo' = runnerRepo
              /\ jobState[j] = "PENDING" /\ jobState'[j] = "PENDING"
              /\ latestRunJobTries[j] = 0 /\ latestRunJobTries'[j] = 0
              /\ sequenceTries' = sequenceTries
              /\ totalJobTries' = totalJobTries]_vars


\* ------------------------------------------------------------------------
\* C32
\* ------------------------------------------------------------------------

\* The range over componentsToAdd visits node n in this step: it inserts
\* it, or fails the sequence with an error about it, or passes it by.
getTemplate_Visited(n) ==
    /\ stack # <<>>
    /\ Top.pc = "getTemplate"
    /\ n \in toVisit
    /\ \/ n \in componentsAdded'
       \/ /\ Top.name \in DOMAIN sequenceErrors'
          /\ \E na \in sequenceErrors'[Top.name].about : na[1] = n
       \/ /\ toVisit' = toVisit \ {n}
          /\ componentsAdded' = componentsAdded

\* C32: when getTemplate visits a node whose dependencies are in the graph
\* and whose Each entries are well formed, the sequence fails with the
\* error "missing job args" exactly when the collection arg of an Each
\* entry, the If arg or the Given of an Args entry is not in jobArgs, and
\* the error names exactly those args; the node is inserted otherwise.
C32_MissingJobArgs ==
    [][\A n \in NodeNames :
          getTemplate_Visited(n) =>
              LET nodes == allSequences[Top.name].Nodes
                  missing == Consumed(nodes[n]) \ jobArgs
                  ready == /\ nodes[n].Dependencies \subseteq componentsAdded
                           /\ ~MalformedEach(nodes[n])
                  failed == /\ Top.name \in DOMAIN sequenceErrors'
                            /\ sequenceErrors'[Top.name].msg
                                  = "missing job args"
              IN  /\ failed <=> (ready /\ missing # {})
                  /\ failed => sequenceErrors'[Top.name].about
                                  = {<<n, arg>> : arg \in missing}
                  /\ n \in componentsAdded' <=> (ready /\ missing = {})]_vars

\* A sequence failed on missing job args at a node that was visited after
\* another node was inserted, which set an arg.
C32_FailedOnMissingArgs ==
    \E q \in DOMAIN sequenceErrors :
        /\ sequenceErrors[q].msg = "missing job args"
        /\ \E na \in sequenceErrors[q].about :
              \E m \in DOMAIN allSequences[q].Nodes :
                  /\ m # na[1]
                  /\ m \in allSequences[q].Nodes[na[1]].Dependencies
                  /\ allSequences[q].Nodes[m].Sets # {}


\* ------------------------------------------------------------------------
\* C33
\* ------------------------------------------------------------------------

\* C33: a goroutine launched for a sequence start job whose sequence has
\* tries waits first; it leaves the wait for t.rf.Make, or, only with
\* stopChan closed, by returning: then pending is one less, and the
\* sequence tries, the runner repo, the job states and the job tries are
\* the same, and no reaper has received a job.
C33_StoppedInSequenceRetryWait ==
    [][\A w \in Workers :
          /\ (wPc[w] = "idle" /\ wPc'[w] # "idle"
                 /\ IsSequenceStartJob(JobOf(w))
                 /\ SequenceTries(JobOf(w)) # 0)
                => wPc'[w] = "start"
          /\ (wPc[w] = "start" /\ wPc'[w] # "start")
                => wPc'[w] \in {"make", "idle"}
          /\ (wPc[w] = "start" /\ wPc'[w] = "idle")
                => /\ Closed("stopChan")
                   /\ pending' = pending - 1
                   /\ sequenceTries' = sequenceTries
                   /\ runnerRepo' = runnerRepo
                   /\ jobState' = jobState
                   /\ totalJobTries' = totalJobTries
                   /\ latestRunJobTries' = latestRunJobTries
                   /\ reaperPc' = reaperPc
                   /\ jobLogs' = jobLogs
                   /\ \A v \in Workers : v # w => wPc'[v] = wPc[v]]_vars

\* A goroutine is in its sequence retry wait and stopChan is closed.
C33_WaitingWhenStopped ==
    /\ ~panicked
    /\ Closed("stopChan")
    /\ \E w \in Workers :
          /\ wPc[w] = "start"
          /\ SequenceTries(JobOf(w)) # 0
          /\ pending >= 1


\* ------------------------------------------------------------------------
\* C34
\* ------------------------------------------------------------------------

\* t.rf.Make fails in the goroutine w in this step.
MakeFails(w) == wPc[w] = "make" /\ wPc'[w] = "send"

\* The goroutine w, whose job has failed, ends in this step.
FailedJobSent(w) ==
    wPc[w] = "send" /\ wState[w] = "FAIL" /\ wPc'[w] = "idle"

\* A reaper is reading doneJobChan.
ReaperReading == \E r \in Reapers : reaperPc[r] = "recv"

\* The goroutine whose t.rf.Make fails decrements pending, once, sets no
\* runner and no job state, has FAIL in its job and sends its job log
\* under the total tries of the job; after that it only sends.
MakeFailureIsJobFailure(w) ==
    /\ MakeFails(w) =>
          /\ pending' = pending - 1
          /\ runnerRepo' = runnerRepo
          /\ jobState' = jobState
          /\ wState'[w] = "FAIL"
          /\ \A k \in DOMAIN jobLogs :
                jobLogs'[k] =
                    IF k = <<JobOf(w), totalJobTries[JobOf(w)]>>
                    THEN (IF jobLogs[k] = 0 THEN 1 ELSE 2)
                    ELSE jobLogs[k]
    /\ (wPc[w] = "send" /\ wPc'[w] # "send") =>
          /\ wPc'[w] = "idle"
          /\ pending' = pending

SendEnds(w) == wPc[w] = "send" /\ wPc'[w] = "idle"

\* A stopped or suspended reaper that was not told to stop finds
\* runnerRepo.Count() = 0 and finalizes.
ObservesEmptyRepo(r) ==
    /\ r \in {"stopped", "suspended"}
    /\ reaperPc[r] = "recv"
    /\ ~reaperStopped[r]
    /\ reaperPc'[r] = "done"

\* A finished job is waiting to be reaped: its goroutine is in the select
\* of the deferred function.
WaitingToBeReaped == {w \in Workers : wPc[w] = "send"}

\* A runner leaves the runner repo only in the step in which a goroutine of
\* its job is through with the deferred select.
RemovedOnlyAfterSend ==
    [][\A j \in Jobs :
          runnerRepo[j] # 0 /\ runnerRepo'[j] = 0
              => \E w \in Workers : JobOf(w) = j /\ SendEnds(w)]_vars

\* C35: a runner is removed from runnerRepo only after the goroutine of its
\* job has handed the job to a reaper or has given up after sendTimeout, and
\* a stopped or suspended reaper never finds runnerRepo empty while a
\* finished job is still waiting to be reaped.
C35_NoEmptyRepoWhileJobWaits ==
    [][/\ \A j \in Jobs :
             runnerRepo[j] # 0 /\ runnerRepo'[j] = 0
                 => \E w \in Workers : JobOf(w) = j /\ SendEnds(w)
       /\ \A r \in Reapers :
             ObservesEmptyRepo(r) => WaitingToBeReaped = {}]_vars


\* ------------------------------------------------------------------------
\* C36: the channels of the traverser are closed once
\* ------------------------------------------------------------------------

\* The channels the traverser closes itself.
TraverserChans == {"stopChan", "doneChan", "pendingChan", "runJobChan"}

\* close(c) is executed in the step.
ClosedInStep(c) == closes'[c] > closes[c]

\* C36: each of stopChan, doneChan, pendingChan and runJobChan is closed at
\* most once; no job is sent on runJobChan once it is closed; and
\* runJobChan is closed only in the step in which the running reaper
\* returns, with the initial jobs of Run all sent.
C36_ChannelsClosedOnce ==
    [][/\ \A c \in TraverserChans : closes'[c] <= 1
       /\ \A j \in Jobs : runJobs_Received(j) => ~Closed("runJobChan")
       /\ ClosedInStep("runJobChan") =>
             /\ reaperPc'["running"] = "done"
             /\ reaperPc["running"] # "done"
             /\ seedJobs = {}
             /\ runPc # "new"]_vars

\* Stop() and the running reaper have closed stopChan, runJobChan and
\* doneChan, runJobs has closed pendingChan, and Stop() was called again.
C36_AllClosed ==
    /\ ~panicked
    /\ \A c \in TraverserChans : closes[c] = 1
    /\ againRet # "none"


\* ------------------------------------------------------------------------
\* C37: Stop() and the reaper Run() installs
\* ------------------------------------------------------------------------

\* Stop() goes past its check of the flags in the step: it closes stopChan,
\* sets t.stopped and calls t.reaper.Stop().
Stop_PassesCheck == ~stopped /\ stopped'

\* C37: Stop() reaches t.reaper.Stop() only after Run() has installed the
\* running reaper, whether it is called before Run, during the seeding of
\* runJobChan, or later.
C37_StopUsesInstalledReaper ==
    [][Stop_PassesCheck => reaper # "nil"]_vars


\* ------------------------------------------------------------------------
\* C38: the try counters of a suspended job chain
\* ------------------------------------------------------------------------

\* The jobs of the latest SJC that MakeFromSJC rewrites.
StoppedInSJC == {j \in Jobs : sjc.jobState[j] = "STOPPED"}

\* The counters of the chain, which are unsigned in the code.
CountersNotNegative ==
    \A j \in Jobs :
        /\ sequenceTries[j] >= 0
        /\ totalJobTries[j] >= 0
        /\ latestRunJobTries[j] >= 0

First(ns) == CHOOSE n \in ns : \A m \in ns : n <= m

RECURSIVE getTemplateInOrder(_, _, _, _, _, _)
\* What getTemplate(seq) returns when each range over componentsToAdd
\* visits the nodes in the order of their names: the error message, "nil"
\* for none, and template.sets. args, toAdd and added are jobArgs,
\* componentsToAdd and componentsAdded, visit the nodes the range has still
\* to visit and anyAdded is componentAdded.
getTemplateInOrder(seq, args, toAdd, added, visit, anyAdded) ==
    IF visit = {}
    THEN IF toAdd = {}
         THEN [msg |-> "nil", sets |-> args]
         ELSE IF ~anyAdded
         THEN [msg |-> "impossible dependencies found amongst", sets |-> {}]
         ELSE getTemplateInOrder(seq, args, toAdd, added, toAdd, FALSE)
    ELSE LET n == First(visit)
             node == seq.Nodes[n]
         IN  IF ~dependenciesSatisfied(added, node.Dependencies, seq.Nodes)
             THEN getTemplateInOrder(seq, args, toAdd, added, visit \ {n},
                                     anyAdded)
             ELSE IF MalformedEach(node)
             THEN [msg |-> "malformed input to each", sets |-> {}]
             ELSE IF getMissingArgs(node, args) # {}
             THEN [msg |-> "missing job args", sets |-> {}]
             ELSE getTemplateInOrder(seq,
                      args \cup {nodeSet.As : nodeSet \in node.Sets},
                      toAdd \ {n}, added \cup {n}, visit \ {n}, TRUE)

\* getTemplate of sequence q with the nodes visited in the order of their
\* names.
InOrder(q) ==
    getTemplateInOrder(allSequences[q],
                       getAllSequenceArgs(allSequences[q]),
                       DOMAIN allSequences[q].Nodes, {},
                       DOMAIN allSequences[q].Nodes, FALSE)

\* The errors getTemplate returns.
getTemplateErrors ==
    {"malformed input to each", "missing job args",
     "impossible dependencies found amongst"}

\* C39: template construction does not depend on the order in which a map
\* is ranged over: a sequence that getTemplate was called for builds if
\* and only if it builds with the nodes visited in the order of their
\* names, with the same template.sets, and it fails with the same kind of
\* error.
C39_OrderIndependent ==
    /\ \A q \in DOMAIN sequenceTemplates :
          /\ InOrder(q).msg = "nil"
          /\ InOrder(q).sets = sequenceTemplates[q].sets
    /\ \A q \in DOMAIN sequenceErrors :
          sequenceErrors[q].msg \in getTemplateErrors
              => InOrder(q).msg = sequenceErrors[q].msg


\* ------------------------------------------------------------------------
\* C40: the recursion of buildSequence
\* ------------------------------------------------------------------------

\* Specs of two sequences with the arg a and one node each: a job, a
\* sequence node of one of the two sequences, or a conditional with one of
\* them in its Eq. A sequence can reference itself or the other one.
CycleNodes ==
    {JobNode({}, {})}
        \cup {SequenceNode(q, {}) : q \in 1 .. 2}
        \cup {ConditionalNode({q, JobType}, {}) : q \in 1 .. 2}

CycleSpecs ==
    {[q \in 1 .. 2 |->
         [Args |-> [Required |-> {"a"}, Optional |-> {}, Static |-> {}],
          Nodes |-> [n \in {1} |-> nd[q]]]] : nd \in [1 .. 2 -> CycleNodes]}

\* The Request Manager with specs that the static checker has or has not
\* passed.
CycleInit ==
    /\ allSequences \in CycleSpecs
    /\ NewGrapher
    /\ NoParser
    /\ NoJobRunner

\* CreateTemplates is one sequential call: it goes on while it can.
CycleSpec ==
    /\ CycleInit
    /\ [][GrapherNext]_vars
    /\ WF_vars(GrapherNext)

\* The sub-sequence reference graph has no cycle: no sequence is among the
\* sequences it references at any depth.
AcyclicReferences ==
    \A q \in DOMAIN allSequences :
        q \notin ReferenceClosure(References(allSequences[q]))

\* No call of buildSequence is nested in a call for the same sequence, so
\* that at most as many calls are nested as there are sequences.
NoNestedRebuild ==
    /\ \A i, k \in DOMAIN stack : i # k => stack[i].name # stack[k].name
    /\ Len(stack) <= Cardinality(DOMAIN allSequences)

\* C40: CreateTemplates terminates for every Specs, also when the
\* sub-sequence reference graph has a cycle: the recursion of buildSequence
\* through buildAllSubsequences is bounded by the sequences, and
\* CreateTemplates returns.
C40_Terminates == [](NoNestedRebuild) /\ <>(ctPc = "returned")

\* C40 amended: CreateTemplates terminates for every Specs whose
\* sub-sequence reference graph has no cycle.
C40_TerminatesWithoutCycle ==
    /\ [](AcyclicReferences => NoNestedRebuild)
    /\ <>(AcyclicReferences => ctPc = "returned")

\* CreateTemplates has returned for specs in which sequence 1 references
\* sequence 2, with a template for both.
C40_ReturnedWithReference ==
    /\ ctPc = "returned"
    /\ AcyclicReferences
    /\ 2 \in References(allSequences[1])
    /\ DOMAIN sequenceTemplates = {1, 2}

====
